---- MODULE Spec2Model ----
(***************************************************************************)
(* The Scotland desirability scoring run of add_scotland_combined_score.py *)
(* as a state machine: main() is followed statement block by statement     *)
(* block (pc), the data frame is a function from index labels to rows, and *)
(* every helper (get_weights, clean_data, normalize_to_0_100,               *)
(* calculate_balance_score, calculate_combined_score) is an operator.      *)
(*                                                                         *)
(* Numbers.  Raw fields (price, sqm, km, minutes, counts) are naturals.    *)
(* NaN/None is the integer NaN, outside every field's range.  Scores are   *)
(* fixed-point integers in units of 1/Scale of a score point, so 100.0 is  *)
(* 100 * Scale; a float division is an integer division in those units.    *)
(* Weights are integers in hundredths (0.08 is 8).  round() of a quotient  *)
(* of integers is computed as on the double (RoundDiv); round() of a       *)
(* computed float is the set of results the floats near the fixed-point    *)
(* value give (round_2).  The rows of the tables hold whole minutes; the   *)
(* balance functions take a time in units of 1/TimeScale of a minute.      *)
(***************************************************************************)
EXTENDS Integers, Sequences, FiniteSets, TLC

\* pandas' missing value (NaN in a numeric column, None in a score column).
NaN == -1

\* 1.0 score point in fixed-point units (four decimals).
Scale == 100 * 100

\* 1 minute in the units the balance functions take a time in (two
\* decimals).
TimeScale == 100

\* The largest table the run is given.
MaxRecords == 2

IsNa(x) == x = NaN
NotNa(x) == x # NaN

\* a cell of whole minutes as a time
Minutes(t) == IF t = NaN THEN NaN ELSE t * TimeScale

Max2(a, b) == IF a >= b THEN a ELSE b
Min2(a, b) == IF a <= b THEN a ELSE b
Abs(a) == IF a >= 0 THEN a ELSE 0 - a

\* 2^k modulo m
RECURSIVE PowerOfTwoMod(_, _)
PowerOfTwoMod(k, m) == IF k = 0 THEN 1 % m ELSE (2 * PowerOfTwoMod(k - 1, m)) % m

\* the binary exponent of the quotient x / d: 2^e <= x / d < 2^(e + 1)
RECURSIVE Exponent(_, _)
Exponent(x, d) ==
    IF x < d THEN Exponent(2 * x, d) - 1
    ELSE IF x >= 2 * d THEN Exponent(x, 2 * d) + 1
    ELSE 0

\* The double x / d compared with the exact quotient: -1 when the double is
\* the smaller, 1 when it is the larger, 0 when the quotient is a double.  The
\* 53-bit significand is x * 2^k / d rounded half-to-even, k = 52 - exponent;
\* its remainder and the parity of its floor are both read from
\* x * 2^k modulo 2 * d.
DoubleError(x, d) ==
    LET k == 52 - Exponent(x, d)
        m == ((x % (2 * d)) * PowerOfTwoMod(k, 2 * d)) % (2 * d)
        r == m % d
        floor_is_odd == m >= d
    IN  IF r = 0 THEN 0
        ELSE IF 2 * r < d THEN 0 - 1
        ELSE IF 2 * r > d THEN 1
        ELSE IF floor_is_odd THEN 1 ELSE 0 - 1

\* round(x / d, ndigits) for x, d > 0, in units of 1/p with p = 10^ndigits.
\* round() rounds the double correctly: off a decimal tie the nearest value,
\* on one the side the double lies on, and half-to-even when the double is
\* the tie itself.
RoundQuotient(x, d, p) ==
    LET q == (x * p) \div d
        r == (x * p) % d
    IN  IF 2 * r < d THEN q
        ELSE IF 2 * r > d THEN q + 1
        ELSE LET e == DoubleError(x, d)
             IN  IF e < 0 THEN q
                 ELSE IF e > 0 THEN q + 1
                 ELSE IF q % 2 = 0 THEN q ELSE q + 1

\* round(x / d, ndigits) for any x: round() is odd, round(-v) = -round(v)
RoundDiv(x, d, p) ==
    IF x = 0 THEN 0
    ELSE IF x < 0 THEN 0 - RoundQuotient(0 - x, d, p)
    ELSE RoundQuotient(x, d, p)

\* A float the program has computed is known here to within Slack units of
\* 1/Scale: the normalized scores, the division of the weighted sum and two
\* of the penalties are truncated quotients, each less than one unit off.
Slack == 3

\* the multiples of 0.01 a value of y units can be rounded to: the nearest
\* one, either neighbour on a tie
Nearest2(y) ==
    LET step == Scale \div 100
        down == (y \div step) * step
        r == y % step
    IN  IF 2 * r < step THEN {down}
        ELSE IF 2 * r > step THEN {down + step}
        ELSE {down, down + step}

\* round(v, 2) of a computed float v that the fixed-point value x stands
\* for: every result the floats within Slack of x round to.  The side of a
\* tie the float lies on depends on the float operations that produced it.
round_2(x) == UNION {Nearest2(y) : y \in (x - Slack)..(x + Slack)}

(***************************************************************************)
(* Columns of the input table.                                             *)
(***************************************************************************)
AllColumns ==
    {"address", "price", "property_size_sqm", "bedrooms", "bathrooms",
     "edinburgh_distance_km", "edinburgh_drive_time_minutes",
     "edinburgh_transit_time_minutes",
     "glasgow_distance_km", "glasgow_drive_time_minutes",
     "glasgow_transit_time_minutes"}

\* The column sets of the input files the run is tried on: the full file, a
\* file scraped without sizes, one without transit times, one without the
\* Edinburgh drive time, one without bedrooms, one without bathrooms.
ColumnSets ==
    {AllColumns,
     AllColumns \ {"property_size_sqm"},
     AllColumns \ {"edinburgh_transit_time_minutes", "glasgow_transit_time_minutes"},
     AllColumns \ {"edinburgh_drive_time_minutes"},
     AllColumns \ {"bedrooms"},
     AllColumns \ {"bathrooms"}}

(***************************************************************************)
(* Rows.  An address is a string; the empty string is the empty CSV cell   *)
(* (NaN).                                                                  *)
(***************************************************************************)
Base ==
    [address |-> "12 High St, Falkirk",
     price |-> 1000, property_size_sqm |-> 50, bedrooms |-> 3, bathrooms |-> 1,
     edinburgh_distance_km |-> 40, edinburgh_drive_time_minutes |-> 40,
     edinburgh_transit_time_minutes |-> 60,
     glasgow_distance_km |-> 40, glasgow_drive_time_minutes |-> 40,
     glasgow_transit_time_minutes |-> 60]

RecordPool ==
    {Base,
     \* dearer, larger, best counts, no transit time at all to either city
     [Base EXCEPT !.price = 2000, !.property_size_sqm = 100,
                  !.bedrooms = 6, !.bathrooms = 4,
                  !.edinburgh_distance_km = 45, !.glasgow_distance_km = 50,
                  !.edinburgh_drive_time_minutes = 45, !.glasgow_drive_time_minutes = 50,
                  !.edinburgh_transit_time_minutes = 0,
                  !.glasgow_transit_time_minutes = 0],
     \* bedrooms unknown, the dearest and nearest-to-Glasgow listing
     [Base EXCEPT !.bedrooms = NaN, !.price = 3000, !.property_size_sqm = 150,
                  !.glasgow_distance_km = 35, !.glasgow_drive_time_minutes = 35,
                  !.edinburgh_transit_time_minutes = 90],
     \* bathrooms unknown
     [Base EXCEPT !.bathrooms = NaN, !.price = 2500],
     \* size unknown
     [Base EXCEPT !.property_size_sqm = NaN, !.price = 1500],
     \* price unknown
     [Base EXCEPT !.price = NaN],
     \* transit times unknown
     [Base EXCEPT !.edinburgh_transit_time_minutes = NaN,
                  !.glasgow_transit_time_minutes = NaN],
     \* Edinburgh distance unknown
     [Base EXCEPT !.edinburgh_distance_km = NaN],
     \* Edinburgh city centre: every penalty applies
     [Base EXCEPT !.address = "",
                  !.bedrooms = 1, !.bathrooms = 0,
                  !.edinburgh_distance_km = 2, !.edinburgh_drive_time_minutes = 10,
                  !.edinburgh_transit_time_minutes = 15,
                  !.glasgow_distance_km = 75, !.glasgow_drive_time_minutes = 60,
                  !.glasgow_transit_time_minutes = 70],
     \* geocoded onto both city centres at once, plausible drive times
     [Base EXCEPT !.edinburgh_distance_km = 0, !.glasgow_distance_km = 0,
                  !.edinburgh_drive_time_minutes = 20, !.glasgow_drive_time_minutes = 25],
     \* an English listing
     [Base EXCEPT !.address = "3 King St, manchester, England"],
     \* beyond both caps, and too far from both cities
     [Base EXCEPT !.edinburgh_distance_km = 250, !.glasgow_distance_km = 150,
                  !.edinburgh_drive_time_minutes = 200, !.glasgow_drive_time_minutes = 190],
     \* beyond the caps on the Edinburgh side only
     [Base EXCEPT !.address = "5 LONDON Road, Glasgow",
                  !.edinburgh_distance_km = 250, !.glasgow_distance_km = 80,
                  !.edinburgh_drive_time_minutes = 200, !.glasgow_drive_time_minutes = 90],
     \* no drive time to either city (a route returned without a duration)
     [Base EXCEPT !.edinburgh_distance_km = 1, !.glasgow_distance_km = 1,
                  !.edinburgh_drive_time_minutes = 0, !.glasgow_drive_time_minutes = 0],
     \* counts outside the step tables; 25 km from Edinburgh, 70 from Glasgow
     [Base EXCEPT !.bedrooms = 7, !.bathrooms = 5, !.price = 2000,
                  !.edinburgh_distance_km = 25, !.glasgow_distance_km = 70]}

\* Rows of the longest tables: two complete listings at different prices
\* and the dearest one, whose bedrooms are unknown.
LongPool ==
    {r \in RecordPool :
        \/ r = Base
        \/ r.price = 2000 /\ r.bedrooms = 6
        \/ r.price = 3000 /\ r.bedrooms = NaN}

\* Tables of one to MaxRecords rows, and of one row more from LongPool; index
\* labels 1..n.
Tables ==
    UNION {[1..n -> RecordPool] : n \in 1..MaxRecords}
    \cup [1..(MaxRecords + 1) -> LongPool]

(***************************************************************************)
(* get_weights: the four weight tables, in hundredths.                     *)
(***************************************************************************)
\* Mutant: the full table with the unused weights set to 0 and the others
\* left as they are.
get_weights_not_redistributed(include_size, include_transit) ==
    [PRICE_WEIGHT |-> 8, EDINBURGH_DISTANCE_WEIGHT |-> 9,
     EDINBURGH_DRIVE_TIME_WEIGHT |-> 7,
     EDINBURGH_TRANSIT_TIME_WEIGHT |-> IF include_transit THEN 11 ELSE 0,
     GLASGOW_DISTANCE_WEIGHT |-> 9, GLASGOW_DRIVE_TIME_WEIGHT |-> 7,
     GLASGOW_TRANSIT_TIME_WEIGHT |-> IF include_transit THEN 11 ELSE 0,
     SIZE_WEIGHT |-> IF include_size THEN 12 ELSE 0,
     BEDROOM_WEIGHT |-> 8, BATHROOM_WEIGHT |-> 5, BALANCE_WEIGHT |-> 13]

get_weights(include_size, include_transit) ==
    IF include_size /\ include_transit THEN
        [PRICE_WEIGHT |-> 8, EDINBURGH_DISTANCE_WEIGHT |-> 9,
         EDINBURGH_DRIVE_TIME_WEIGHT |-> 7, EDINBURGH_TRANSIT_TIME_WEIGHT |-> 11,
         GLASGOW_DISTANCE_WEIGHT |-> 9, GLASGOW_DRIVE_TIME_WEIGHT |-> 7,
         GLASGOW_TRANSIT_TIME_WEIGHT |-> 11, SIZE_WEIGHT |-> 12,
         BEDROOM_WEIGHT |-> 8, BATHROOM_WEIGHT |-> 5, BALANCE_WEIGHT |-> 13]
    ELSE IF include_size /\ ~include_transit THEN
        [PRICE_WEIGHT |-> 0, EDINBURGH_DISTANCE_WEIGHT |-> 18,
         EDINBURGH_DRIVE_TIME_WEIGHT |-> 18, EDINBURGH_TRANSIT_TIME_WEIGHT |-> 0,
         GLASGOW_DISTANCE_WEIGHT |-> 18, GLASGOW_DRIVE_TIME_WEIGHT |-> 18,
         GLASGOW_TRANSIT_TIME_WEIGHT |-> 0, SIZE_WEIGHT |-> 12,
         BEDROOM_WEIGHT |-> 8, BATHROOM_WEIGHT |-> 5, BALANCE_WEIGHT |-> 3]
    ELSE IF ~include_size /\ include_transit THEN
        [PRICE_WEIGHT |-> 0, EDINBURGH_DISTANCE_WEIGHT |-> 12,
         EDINBURGH_DRIVE_TIME_WEIGHT |-> 12, EDINBURGH_TRANSIT_TIME_WEIGHT |-> 18,
         GLASGOW_DISTANCE_WEIGHT |-> 12, GLASGOW_DRIVE_TIME_WEIGHT |-> 12,
         GLASGOW_TRANSIT_TIME_WEIGHT |-> 18, SIZE_WEIGHT |-> 0,
         BEDROOM_WEIGHT |-> 10, BATHROOM_WEIGHT |-> 5, BALANCE_WEIGHT |-> 1]
    ELSE
        [PRICE_WEIGHT |-> 0, EDINBURGH_DISTANCE_WEIGHT |-> 22,
         EDINBURGH_DRIVE_TIME_WEIGHT |-> 18, EDINBURGH_TRANSIT_TIME_WEIGHT |-> 0,
         GLASGOW_DISTANCE_WEIGHT |-> 22, GLASGOW_DRIVE_TIME_WEIGHT |-> 18,
         GLASGOW_TRANSIT_TIME_WEIGHT |-> 0, SIZE_WEIGHT |-> 0,
         BEDROOM_WEIGHT |-> 15, BATHROOM_WEIGHT |-> 5, BALANCE_WEIGHT |-> 0]

WeightNames ==
    {"PRICE_WEIGHT", "EDINBURGH_DISTANCE_WEIGHT", "EDINBURGH_DRIVE_TIME_WEIGHT",
     "EDINBURGH_TRANSIT_TIME_WEIGHT", "GLASGOW_DISTANCE_WEIGHT",
     "GLASGOW_DRIVE_TIME_WEIGHT", "GLASGOW_TRANSIT_TIME_WEIGHT", "SIZE_WEIGHT",
     "BEDROOM_WEIGHT", "BATHROOM_WEIGHT", "BALANCE_WEIGHT"}

RECURSIVE SumOver(_, _)
SumOver(f, S) ==
    IF S = {} THEN 0
    ELSE LET k == CHOOSE x \in S : TRUE IN f[k] + SumOver(f, S \ {k})

\* sum(WEIGHTS.values()), in hundredths
total_weight(W) == SumOver(W, WeightNames)

\* Mutant: the assertion without abs(), so a sum below 1.0 passes.
weights_valid_no_abs(W) == 10 * (total_weight(W) - 100) < 1

\* abs(total_weight - 1.0) < 0.001, with the weights in hundredths
weights_valid(W) == 10 * Abs(total_weight(W) - 100) < 1

\* The weight block is the script's customisation point ("CUSTOMIZE YOUR
\* WEIGHTS HERE (must add up to 1.0)"): the tables as shipped, and two edits
\* of one weight that break the sum.
WeightEdits == {0, 5, 0 - 3}
Customized(W, edit) == [W EXCEPT !.BEDROOM_WEIGHT = @ + edit]

(***************************************************************************)
(* clean_data                                                              *)
(***************************************************************************)
non_scottish_keywords ==
    {"Manchester", "England", "Wales", "London", "Birmingham", "Liverpool",
     "Leeds", "Sheffield"}

\* The keywords an address contains as a substring, whatever the case.
KeywordsIn(address) ==
    CASE address = "3 King St, manchester, England" -> {"Manchester", "England"}
      [] address = "5 LONDON Road, Glasgow" -> {"London"}
      [] OTHER -> {}

\* df['address'].str.contains('|'.join(keywords), case=False, na=False)
str_contains(address) ==
    IF address = "" THEN FALSE
    ELSE KeywordsIn(address) \cap non_scottish_keywords # {}

DRIVE_TIME_CAP == 180
DISTANCE_CAP == 200
TOO_FAR_KM == 100
UNREALISTIC_MINUTES == 5

\* Series.clip(upper=cap): NaN stays NaN
clip(x, cap) == IF IsNa(x) THEN x ELSE IF x > cap THEN cap ELSE x

\* row-wise comparisons of pandas: a comparison with NaN is False
Gt(x, c) == NotNa(x) /\ x > c
Lt(x, c) == NotNa(x) /\ x < c

\* Mutant: only the drive times are clipped.
clip_row_times_only(r) ==
    [r EXCEPT
        !.edinburgh_drive_time_minutes = clip(@, DRIVE_TIME_CAP),
        !.glasgow_drive_time_minutes = clip(@, DRIVE_TIME_CAP)]

clip_row(r) ==
    [r EXCEPT
        !.edinburgh_drive_time_minutes = clip(@, DRIVE_TIME_CAP),
        !.glasgow_drive_time_minutes = clip(@, DRIVE_TIME_CAP),
        !.edinburgh_distance_km = clip(@, DISTANCE_CAP),
        !.glasgow_distance_km = clip(@, DISTANCE_CAP)]

\* Mutant: one distance over the limit is enough.
too_far_either(r) ==
    Gt(r.edinburgh_distance_km, TOO_FAR_KM) \/ Gt(r.glasgow_distance_km, TOO_FAR_KM)

too_far(r) == Gt(r.edinburgh_distance_km, TOO_FAR_KM) /\ Gt(r.glasgow_distance_km, TOO_FAR_KM)

\* Mutant: no drive time is short enough to be dropped.
unrealistic_times_kept(r) ==
    /\ Lt(r.edinburgh_drive_time_minutes, 0)
    /\ Lt(r.glasgow_drive_time_minutes, 0)

\* Mutant: one drive time under the limit is enough.
unrealistic_times_either(r) ==
    \/ Lt(r.edinburgh_drive_time_minutes, UNREALISTIC_MINUTES)
    \/ Lt(r.glasgow_drive_time_minutes, UNREALISTIC_MINUTES)

unrealistic_times(r) ==
    /\ Lt(r.edinburgh_drive_time_minutes, UNREALISTIC_MINUTES)
    /\ Lt(r.glasgow_drive_time_minutes, UNREALISTIC_MINUTES)

Restrict(f, S) == [i \in S |-> f[i]]

CleanColumns ==
    {"address", "edinburgh_drive_time_minutes", "glasgow_drive_time_minutes",
     "edinburgh_distance_km", "glasgow_distance_km"}

\* An address column read from cells that are all empty is a float column,
\* on which the .str accessor raises.
address_is_text(df) == DOMAIN df = {} \/ \E i \in DOMAIN df : df[i].address # ""

\* Mutant: the two drop rules run on the whole frame before the region
\* filter, and the counts are reported in the usual places.
clean_data_drops_first(df, cols) ==
    LET original_count == Cardinality(DOMAIN df)
        clipped == [i \in DOMAIN df |-> clip_row(df[i])]
        keep1 == {i \in DOMAIN df : ~too_far(clipped[i])}
        removed_too_far == original_count - Cardinality(keep1)
        keep2 == {i \in keep1 : ~unrealistic_times(clipped[i])}
        removed_unrealistic == original_count - removed_too_far - Cardinality(keep2)
        keep3 == {i \in keep2 : ~str_contains(df[i].address)}
        removed_non_scottish ==
            original_count - removed_too_far - removed_unrealistic - Cardinality(keep3)
    IN  IF ~address_is_text(df) THEN
            [raised |-> "AttributeError", df |-> df, removed |-> <<>>]
        ELSE
            [raised |-> "", df |-> Restrict(clipped, keep3),
             removed |-> <<removed_non_scottish, removed_too_far, removed_unrealistic>>]

\* clean_data(df) on a frame with the columns cols.
\*   raised  : "" when it returns, else the exception: KeyError from
\*             df['address'] on a frame without that column (nothing has
\*             been logged), AttributeError from .str on a float column,
\*             KeyError from indexing an absent drive-time or distance
\*             column (after the region filter has run and logged)
\*   df      : the frame returned (df_cleaned where it raised)
\*   removed : the removal counts logged, in order
clean_data(df, cols) ==
    LET original_count == Cardinality(DOMAIN df)
        keep1 == {i \in DOMAIN df : ~str_contains(df[i].address)}
        removed_non_scottish == original_count - Cardinality(keep1)
        clipped == [i \in keep1 |-> clip_row(df[i])]
        keep2 == {i \in keep1 : ~too_far(clipped[i])}
        removed_too_far == original_count - removed_non_scottish - Cardinality(keep2)
        keep3 == {i \in keep2 : ~unrealistic_times(clipped[i])}
        removed_unrealistic ==
            original_count - removed_non_scottish - removed_too_far - Cardinality(keep3)
    IN  IF "address" \notin cols THEN
            [raised |-> "KeyError", df |-> df, removed |-> <<>>]
        ELSE IF ~address_is_text(df) THEN
            [raised |-> "AttributeError", df |-> df, removed |-> <<>>]
        ELSE IF ~(CleanColumns \subseteq cols) THEN
            [raised |-> "KeyError", df |-> Restrict(df, keep1),
             removed |-> <<removed_non_scottish>>]
        ELSE
            [raised |-> "", df |-> Restrict(clipped, keep3),
             removed |-> <<removed_non_scottish, removed_too_far, removed_unrealistic>>]

(***************************************************************************)
(* Scoring helpers.  A Series is a function from index labels to values;   *)
(* the empty dict {} that stands in for a skipped factor is the function   *)
(* with the empty domain.                                                  *)
(***************************************************************************)
EmptySeries == [i \in {} |-> 0]

\* Series.get(key, default) and dict.get(key, default)
get(series, key, default) == IF key \in DOMAIN series THEN series[key] ELSE default

SeriesMin(values) ==
    CHOOSE m \in {values[i] : i \in DOMAIN values} :
        \A i \in DOMAIN values : m <= values[i]
SeriesMax(values) ==
    CHOOSE m \in {values[i] : i \in DOMAIN values} :
        \A i \in DOMAIN values : m >= values[i]

\* Mutant: the minimum is not subtracted from the value.
normalize_without_offset(values, higher_is_better) ==
    LET min_val == SeriesMin(values)
        max_val == SeriesMax(values)
    IN  IF max_val = min_val THEN [i \in DOMAIN values |-> 50 * Scale]
        ELSE [i \in DOMAIN values |->
                LET normalized == (values[i] * 100 * Scale) \div (max_val - min_val)
                IN  IF higher_is_better THEN normalized ELSE 100 * Scale - normalized]

\* Mutant: higher_is_better is ignored, the scale is never inverted.
normalize_ignoring_direction(values, higher_is_better) ==
    LET min_val == SeriesMin(values)
        max_val == SeriesMax(values)
    IN  IF max_val = min_val THEN [i \in DOMAIN values |-> 50 * Scale]
        ELSE [i \in DOMAIN values |->
                ((values[i] - min_val) * 100 * Scale) \div (max_val - min_val)]

\* normalize_to_0_100(values, higher_is_better): scores in units of 1/Scale
normalize_to_0_100(values, higher_is_better) ==
    LET min_val == SeriesMin(values)
        max_val == SeriesMax(values)
    IN  IF max_val = min_val THEN [i \in DOMAIN values |-> 50 * Scale]
        ELSE [i \in DOMAIN values |->
                LET normalized == ((values[i] - min_val) * 100 * Scale) \div (max_val - min_val)
                IN  IF higher_is_better THEN normalized ELSE 100 * Scale - normalized]

\* Mutant: the max-time part is not floored at 0.
balance_formula_unfloored(time_a, time_b) ==
    LET max_time == Max2(time_a, time_b)
        time_diff == Abs(time_a - time_b)
        max_time_penalty == 100 * Scale - (max_time * Scale) \div (2 * TimeScale)
        balance_penalty == Max2(0, 100 * Scale - (time_diff * Scale) \div (2 * TimeScale))
    IN  (max_time_penalty * 6) \div 10 + (balance_penalty * 4) \div 10

\* The unrounded balance formula, shared by calculate_balance_score and by
\* the two inline copies for drive times: times in units of 1/TimeScale of a
\* minute, the score in units of 1/Scale (exact: three decimals at most).
balance_formula(time_a, time_b) ==
    LET max_time == Max2(time_a, time_b)
        time_diff == Abs(time_a - time_b)
        max_time_penalty == Max2(0, 100 * Scale - (max_time * Scale) \div (2 * TimeScale))
        balance_penalty == Max2(0, 100 * Scale - (time_diff * Scale) \div (2 * TimeScale))
    IN  (max_time_penalty * 6) \div 10 + (balance_penalty * 4) \div 10

\* calculate_balance_score(edin_transit_time, glas_transit_time): the values
\* round(balance_score, 2) can return.  One, unless the formula's value lies
\* halfway between two multiples of 0.01: the float computed for it then
\* lies on either side.
calculate_balance_score(edin_transit_time, glas_transit_time) ==
    Nearest2(balance_formula(edin_transit_time, glas_transit_time))

\* the inline copy of the formula for two drive times, in
\* calculate_combined_score and in main(): not rounded
inline_balance_score(edin_drive_time, glas_drive_time) ==
    IF NotNa(edin_drive_time) /\ NotNa(glas_drive_time)
    THEN balance_formula(edin_drive_time, glas_drive_time)
    ELSE 0

\* Mutant: counts above the table are scored like the top of the table.
calculate_bedroom_score_clamped(bedrooms) ==
    IF IsNa(bedrooms) THEN 0
    ELSE CASE bedrooms = 1 -> 10 [] bedrooms = 2 -> 30 [] bedrooms = 3 -> 50
           [] bedrooms = 4 -> 70 [] bedrooms = 5 -> 85 [] bedrooms >= 6 -> 100
           [] OTHER -> 0

\* calculate_bedroom_score / calculate_bathroom_score: the step tables
calculate_bedroom_score(bedrooms) ==
    IF IsNa(bedrooms) THEN 0
    ELSE CASE bedrooms = 1 -> 10 [] bedrooms = 2 -> 30 [] bedrooms = 3 -> 50
           [] bedrooms = 4 -> 70 [] bedrooms = 5 -> 85 [] bedrooms = 6 -> 100
           [] OTHER -> 0

calculate_bathroom_score(bathrooms) ==
    IF IsNa(bathrooms) THEN 0
    ELSE CASE bathrooms = 0 -> 0 [] bathrooms = 1 -> 25 [] bathrooms = 2 -> 60
           [] bathrooms = 3 -> 85 [] bathrooms = 4 -> 100
           [] OTHER -> 0

(***************************************************************************)
(* calculate_combined_score                                                *)
(***************************************************************************)
\* Mutant: the list main() filters on, without bedrooms and bathrooms.
required_fields_of_filter(include_size, include_transit, include_price) ==
    {"edinburgh_distance_km", "edinburgh_drive_time_minutes",
     "glasgow_distance_km", "glasgow_drive_time_minutes"}
    \cup (IF include_price THEN {"price"} ELSE {})
    \cup (IF include_size THEN {"property_size_sqm"} ELSE {})
    \cup (IF include_transit
          THEN {"edinburgh_transit_time_minutes", "glasgow_transit_time_minutes"}
          ELSE {})

\* required_fields of calculate_combined_score
required_fields(include_size, include_transit, include_price) ==
    {"edinburgh_distance_km", "edinburgh_drive_time_minutes",
     "glasgow_distance_km", "glasgow_drive_time_minutes", "bedrooms", "bathrooms"}
    \cup (IF include_price THEN {"price"} ELSE {})
    \cup (IF include_size THEN {"property_size_sqm"} ELSE {})
    \cup (IF include_transit
          THEN {"edinburgh_transit_time_minutes", "glasgow_transit_time_minutes"}
          ELSE {})

\* Mutant: the penalty needs both drive times under 15 minutes.
city_center_penalty_both(edin_drive_time, glas_drive_time) ==
    IF edin_drive_time < 15 /\ glas_drive_time < 15
    THEN LET lo == Min2(edin_drive_time, glas_drive_time)
             hi == Max2(edin_drive_time, glas_drive_time)
         IN  ((hi - lo) * 30 * Scale) \div hi
    ELSE 0

\* 1. city center penalty; the caller has excluded a zero divisor
city_center_penalty(edin_drive_time, glas_drive_time) ==
    IF edin_drive_time < 15 \/ glas_drive_time < 15
    THEN LET lo == Min2(edin_drive_time, glas_drive_time)
             hi == Max2(edin_drive_time, glas_drive_time)
         IN  ((hi - lo) * 30 * Scale) \div hi
    ELSE 0

\* Mutant: the excess over 60 km is not capped.
far_penalty_uncapped(edin_distance, glas_distance) ==
    LET max_distance == Max2(edin_distance, glas_distance)
    IN  IF max_distance > 60 THEN ((max_distance - 60) * Scale) \div 2 ELSE 0

\* Mutant: the shortfall under 30 km is not capped.
close_penalty_uncapped(edin_distance, glas_distance) ==
    LET min_distance == Min2(edin_distance, glas_distance)
    IN  IF min_distance < 30 THEN ((30 - min_distance) * 8 * Scale) \div 10 ELSE 0

\* Mutant: the threshold of the ratio is 0.3, the value it had before.
imbalance_penalty_old_threshold(edin_distance, glas_distance) ==
    LET lo == Min2(edin_distance, glas_distance)
        hi == Max2(edin_distance, glas_distance)
    IN  IF 10 * lo < 3 * hi THEN ((hi - 2 * lo) * 25 * Scale) \div hi ELSE 0

\* 2. distance penalties: too far from either city, too close to one
far_penalty(edin_distance, glas_distance) ==
    LET max_distance == Max2(edin_distance, glas_distance)
    IN  IF max_distance > 60
        THEN Min2(((max_distance - 60) * Scale) \div 2, 25 * Scale)
        ELSE 0

close_penalty(edin_distance, glas_distance) ==
    LET min_distance == Min2(edin_distance, glas_distance)
    IN  IF min_distance < 30
        THEN Min2(((30 - min_distance) * 8 * Scale) \div 10, 20 * Scale)
        ELSE 0

\* 3. extreme imbalance penalty; the caller has excluded a zero divisor
imbalance_penalty(edin_distance, glas_distance) ==
    LET lo == Min2(edin_distance, glas_distance)
        hi == Max2(edin_distance, glas_distance)
    IN  IF 2 * lo < hi THEN ((hi - 2 * lo) * 25 * Scale) \div hi ELSE 0

\* The division of the city center penalty is evaluated and its divisor is 0.
time_division_by_zero(row) ==
    /\ row.edinburgh_drive_time_minutes < 15 \/ row.glasgow_drive_time_minutes < 15
    /\ Max2(row.edinburgh_drive_time_minutes, row.glasgow_drive_time_minutes) = 0

\* The division of the imbalance penalty is evaluated and its divisor is 0.
distance_division_by_zero(row) ==
    Max2(row.edinburgh_distance_km, row.glasgow_distance_km) = 0

\* the amounts the penalty block adds to total_penalty, one per penalty
penalties(row) ==
    [city_center |->
        city_center_penalty(row.edinburgh_drive_time_minutes, row.glasgow_drive_time_minutes),
     far |-> far_penalty(row.edinburgh_distance_km, row.glasgow_distance_km),
     close |-> close_penalty(row.edinburgh_distance_km, row.glasgow_distance_km),
     imbalance |-> imbalance_penalty(row.edinburgh_distance_km, row.glasgow_distance_km)]

\* total_penalty before any penalty is added
NoPenalties == [city_center |-> 0, far |-> 0, close |-> 0, imbalance |-> 0]

\* Mutant: only the largest of the four penalties is kept.
total_penalty_largest(row) ==
    LET p == penalties(row)
    IN  Max2(Max2(p.city_center, p.far), Max2(p.close, p.imbalance))

total_penalty(row) ==
    LET p == penalties(row)
    IN  p.city_center + p.far + p.close + p.imbalance

\* Mutant: the penalties are subtracted without the floor.
apply_penalties_unfloored(combined, penalty) == combined - penalty

\* combined = max(0, combined - total_penalty)
apply_penalties(combined, penalty) == Max2(0, combined - penalty)

\* "Get balance score": the series entry with transit times, the inline copy
\* of the formula on the row's drive times without
balance_used(name, S, row, include_transit) ==
    IF include_transit THEN get(S.balance, name, 0)
    ELSE inline_balance_score(Minutes(row.edinburgh_drive_time_minutes),
                              Minutes(row.glasgow_drive_time_minutes))

\* The weighted combination: scores in units of 1/Scale, weights in hundredths.
weighted_sum(name, S, W, row, include_size, include_transit, include_price) ==
    LET price_score == IF include_price THEN get(S.price, name, 0) ELSE 0
        edin_transit_score == IF include_transit THEN get(S.edin_transit, name, 0) ELSE 0
        glas_transit_score == IF include_transit THEN get(S.glas_transit, name, 0) ELSE 0
        size_score == IF include_size THEN get(S.size, name, 0) ELSE 0
        balance_score == balance_used(name, S, row, include_transit)
    IN  (price_score * W.PRICE_WEIGHT
         + get(S.edin_dist, name, 0) * W.EDINBURGH_DISTANCE_WEIGHT
         + get(S.edin_drive, name, 0) * W.EDINBURGH_DRIVE_TIME_WEIGHT
         + edin_transit_score * W.EDINBURGH_TRANSIT_TIME_WEIGHT
         + get(S.glas_dist, name, 0) * W.GLASGOW_DISTANCE_WEIGHT
         + get(S.glas_drive, name, 0) * W.GLASGOW_DRIVE_TIME_WEIGHT
         + glas_transit_score * W.GLASGOW_TRANSIT_TIME_WEIGHT
         + size_score * W.SIZE_WEIGHT
         + get(S.bedroom, name, 0) * W.BEDROOM_WEIGHT
         + get(S.bathroom, name, 0) * W.BATHROOM_WEIGHT
         + balance_score * W.BALANCE_WEIGHT) \div 100

\* The fields of row that are null among those the call requires.
missing_required(row, include_size, include_transit, include_price) ==
    {f \in required_fields(include_size, include_transit, include_price) : IsNa(row[f])}

\* calculate_combined_score(row, ...series, include_size, include_transit,
\* include_price) with row.name = name and the global WEIGHTS = W: the
\* results the call can have, one unless the float it rounds lies within
\* Slack of a tie.
\*   score  : the value returned (NaN for None, and when it raises)
\*   raised : ZeroDivisionError
\*   steps  : the blocks of the body that were evaluated, in order
\*   penalties : the four amounts added to total_penalty (when it returned a
\*               score)
calculate_combined_score(row, name, S, W, include_size, include_transit, include_price) ==
    IF missing_required(row, include_size, include_transit, include_price) # {} THEN
        {[score |-> NaN, raised |-> FALSE, steps |-> <<"required">>,
          penalties |-> NoPenalties]}
    ELSE IF time_division_by_zero(row) THEN
        {[score |-> NaN, raised |-> TRUE, steps |-> <<"required", "scores", "penalties">>,
          penalties |-> NoPenalties]}
    ELSE IF distance_division_by_zero(row) THEN
        {[score |-> NaN, raised |-> TRUE, steps |-> <<"required", "scores", "penalties">>,
          penalties |-> NoPenalties]}
    ELSE
        LET combined == weighted_sum(name, S, W, row, include_size, include_transit,
                                     include_price)
        IN  {[score |-> rounded,
              raised |-> FALSE,
              steps |-> <<"required", "scores", "penalties", "weighted", "floor", "round">>,
              penalties |-> penalties(row)] :
                rounded \in round_2(apply_penalties(combined, total_penalty(row)))}

(***************************************************************************)
(* main(): the state of one run.                                           *)
(***************************************************************************)
VARIABLES
    pc,              \* the block of main() that runs next, or how it ended
    error,           \* why the run ended early ("" while it has not)
    include_size,    \* the mode flags derived from the arguments
    include_transit,
    WEIGHTS,         \* the global weight table
    columns,         \* the columns of the loaded CSV
    loaded,          \* the table as read by pd.read_csv
    df,              \* the working frame: index label -> row
    clean_log,       \* the removal counts clean_data has logged
    df_complete,     \* index labels of the rows that passed the filter
    scores,          \* the per-factor score series
    score_columns,   \* the score columns added to df: column -> label -> value
    pending,         \* labels the combining loop has not visited yet
    last_call,       \* the latest call of calculate_combined_score
    output,          \* the tables written by to_csv, in order
    args,            \* arguments of a helper applied on its own
    result,          \* and what it returned
    origin_addresses,  \* get_distances_from_routes_api: the addresses given
    batch_start,       \* its loop variable i, the offset of the current batch
    all_results,       \* the results it has collected so far
    max_pages,         \* scrape_all_pages: the page limit given (None = all)
    total_pages,       \* pagination.total of the first page
    page_num,          \* the number of the page fetched last
    requested,         \* the index parameter of every request made, in order
    all_properties,    \* the frames of the pages kept, as lists of ids
    combined_df        \* the ids of the table returned

vars == <<pc, error, include_size, include_transit, WEIGHTS, columns, loaded, df,
          clean_log, df_complete, scores, score_columns, pending, last_call,
          output, args, result, origin_addresses, batch_start, all_results,
          max_pages, total_pages, page_num, requested, all_properties, combined_df>>

routes_vars == <<origin_addresses, batch_start, all_results>>

scrape_vars == <<max_pages, total_pages, page_num, requested, all_properties,
                 combined_df>>

helper_vars == <<args, result, routes_vars, scrape_vars>>

\* no call of get_distances_from_routes_api or scrape_all_pages is in progress
NoRequests ==
    /\ origin_addresses = <<>>
    /\ batch_start = 0
    /\ all_results = <<>>
    /\ max_pages = NaN
    /\ total_pages = 1
    /\ page_num = 0
    /\ requested = <<>>
    /\ all_properties = <<>>
    /\ combined_df = <<>>

NoScores ==
    [price |-> EmptySeries, edin_dist |-> EmptySeries, edin_drive |-> EmptySeries,
     glas_dist |-> EmptySeries, glas_drive |-> EmptySeries,
     edin_transit |-> EmptySeries, glas_transit |-> EmptySeries,
     size |-> EmptySeries, bedroom |-> EmptySeries, bathroom |-> EmptySeries,
     balance |-> EmptySeries]

NoCall ==
    [name |-> 0, score |-> NaN, raised |-> FALSE, steps |-> <<>>, penalties |-> NoPenalties]

Init ==
    /\ pc = "parse_arguments"
    /\ error = ""
    /\ include_size = TRUE
    /\ include_transit = TRUE
    /\ WEIGHTS = [n \in WeightNames |-> 0]
    /\ columns = {}
    /\ loaded = EmptySeries
    /\ df = EmptySeries
    /\ clean_log = <<>>
    /\ df_complete = {}
    /\ scores = NoScores
    /\ score_columns = EmptySeries
    /\ pending = <<>>
    /\ last_call = NoCall
    /\ output = <<>>
    /\ args = <<>>
    /\ result = NaN
    /\ NoRequests

\* args = parse_arguments() and the mode flags derived from it
ParseArguments ==
    /\ pc = "parse_arguments"
    /\ \E minimal \in BOOLEAN, no_size \in BOOLEAN, no_transit \in BOOLEAN :
          /\ include_size' = (IF minimal THEN FALSE ELSE ~no_size)
          /\ include_transit' = (IF minimal THEN FALSE ELSE ~no_transit)
    /\ pc' = "set_weights"
    /\ UNCHANGED <<error, WEIGHTS, columns, loaded, df, clean_log, df_complete,
                   scores, score_columns, pending, last_call, output, helper_vars>>

\* WEIGHTS = get_weights(include_size, include_transit), the tables as shipped
\* or as edited by the user
SetWeights ==
    /\ pc = "set_weights"
    /\ \E edit \in WeightEdits :
          WEIGHTS' = Customized(get_weights(include_size, include_transit), edit)
    /\ pc' = "validate_weights"
    /\ UNCHANGED <<error, include_size, include_transit, columns, loaded, df,
                   clean_log, df_complete, scores, score_columns, pending,
                   last_call, output, helper_vars>>

\* assert abs(total_weight - 1.0) < 0.001
ValidateWeights ==
    /\ pc = "validate_weights"
    /\ IF weights_valid(WEIGHTS)
       THEN pc' = "load" /\ error' = error
       ELSE pc' = "raised" /\ error' = "AssertionError"
    /\ UNCHANGED <<include_size, include_transit, WEIGHTS, columns, loaded, df,
                   clean_log, df_complete, scores, score_columns, pending,
                   last_call, output, helper_vars>>

\* A row as read from a file that has only the columns cols.
Project(row, cols) ==
    [f \in DOMAIN row |-> IF f \in cols THEN row[f] ELSE NaN]

\* df = pd.read_csv(input_file), or the error return
LoadCSV ==
    /\ pc = "load"
    /\ \/ /\ pc' = "exit1"
          /\ error' = "load"
          /\ UNCHANGED <<columns, loaded, df>>
       \/ \E t \in Tables, cols \in ColumnSets :
             /\ loaded' = [i \in DOMAIN t |-> Project(t[i], cols)]
             /\ df' = loaded'
             /\ columns' = cols
             /\ pc' = "clean"
             /\ error' = error
    /\ UNCHANGED <<include_size, include_transit, WEIGHTS, clean_log, df_complete,
                   scores, score_columns, pending, last_call, output, helper_vars>>

\* df = clean_data(df)
CleanData ==
    /\ pc = "clean"
    /\ LET r == clean_data(df, columns)
       IN  /\ clean_log' = r.removed
           /\ IF r.raised # ""
              THEN pc' = "raised" /\ error' = r.raised /\ df' = df
              ELSE pc' = "check_columns" /\ error' = error /\ df' = r.df
    /\ UNCHANGED <<include_size, include_transit, WEIGHTS, columns, loaded,
                   df_complete, scores, score_columns, pending, last_call, output,
                   helper_vars>>

\* Mutant: size and transit times are required in every mode.
required_columns_all_modes(size, transit) ==
    {"price", "edinburgh_distance_km", "edinburgh_drive_time_minutes",
     "glasgow_distance_km", "glasgow_drive_time_minutes", "property_size_sqm",
     "edinburgh_transit_time_minutes", "glasgow_transit_time_minutes"}

\* required_columns of main()
required_columns(size, transit) ==
    {"price", "edinburgh_distance_km", "edinburgh_drive_time_minutes",
     "glasgow_distance_km", "glasgow_drive_time_minutes"}
    \cup (IF size THEN {"property_size_sqm"} ELSE {})
    \cup (IF transit
          THEN {"edinburgh_transit_time_minutes", "glasgow_transit_time_minutes"}
          ELSE {})

missing_columns == required_columns(include_size, include_transit) \ columns

\* the required-column check
CheckColumns ==
    /\ pc = "check_columns"
    /\ IF missing_columns # {}
       THEN pc' = "exit1" /\ error' = "columns"
       ELSE pc' = "filter" /\ error' = error
    /\ UNCHANGED <<include_size, include_transit, WEIGHTS, columns, loaded, df,
                   clean_log, df_complete, scores, score_columns, pending,
                   last_call, output, helper_vars>>

\* filter_conditions of main(): the columns that must be non-null
filter_fields(size, transit) == required_columns(size, transit)

complete_rows(frame, size, transit) ==
    {i \in DOMAIN frame : \A f \in filter_fields(size, transit) : NotNa(frame[i][f])}

\* df_complete = df[...].copy(), the percentage that is logged, and the
\* return when no row is complete
FilterComplete ==
    /\ pc = "filter"
    /\ df_complete' = complete_rows(df, include_size, include_transit)
    /\ IF DOMAIN df = {}
       THEN pc' = "raised" /\ error' = "ZeroDivisionError"
       ELSE IF df_complete' = {}
       THEN pc' = "exit1" /\ error' = "no_complete"
       ELSE pc' = "normalize" /\ error' = error
    /\ UNCHANGED <<include_size, include_transit, WEIGHTS, columns, loaded, df,
                   clean_log, scores, score_columns, pending, last_call, output,
                   helper_vars>>

\* df_complete[column] as a Series
Column(frame, labels, f) == [i \in labels |-> frame[i][f]]

\* integer points of a step table, as a score
Points(n) == n * Scale

\* "Calculate balance scores": the series the loop over df_complete can
\* fill, calculate_balance_score of the transit times or the inline copy on
\* the drive times
balance_scores(frame, labels, transit) ==
    LET values(i) ==
            IF transit
            THEN calculate_balance_score(Minutes(frame[i].edinburgh_transit_time_minutes),
                                         Minutes(frame[i].glasgow_transit_time_minutes))
            ELSE {inline_balance_score(Minutes(frame[i].edinburgh_drive_time_minutes),
                                       Minutes(frame[i].glasgow_drive_time_minutes))}
    IN  {b \in [labels -> UNION {values(i) : i \in labels}] :
            \A i \in labels : b[i] \in values(i)}

\* the score series computed from df_complete, for each series
\* balance_scores can be
compute_scores(frame, labels, W, size, transit) ==
  {
    [price |-> IF W.PRICE_WEIGHT > 0
               THEN normalize_to_0_100(Column(frame, labels, "price"), FALSE)
               ELSE EmptySeries,
     edin_dist |-> normalize_to_0_100(Column(frame, labels, "edinburgh_distance_km"), FALSE),
     edin_drive |->
        normalize_to_0_100(Column(frame, labels, "edinburgh_drive_time_minutes"), FALSE),
     glas_dist |-> normalize_to_0_100(Column(frame, labels, "glasgow_distance_km"), FALSE),
     glas_drive |->
        normalize_to_0_100(Column(frame, labels, "glasgow_drive_time_minutes"), FALSE),
     edin_transit |->
        IF transit
        THEN normalize_to_0_100(Column(frame, labels, "edinburgh_transit_time_minutes"), FALSE)
        ELSE EmptySeries,
     glas_transit |->
        IF transit
        THEN normalize_to_0_100(Column(frame, labels, "glasgow_transit_time_minutes"), FALSE)
        ELSE EmptySeries,
     size |-> IF size
              THEN normalize_to_0_100(Column(frame, labels, "property_size_sqm"), TRUE)
              ELSE EmptySeries,
     bedroom |-> [i \in labels |-> Points(calculate_bedroom_score(frame[i].bedrooms))],
     bathroom |-> [i \in labels |-> Points(calculate_bathroom_score(frame[i].bathrooms))],
     balance |-> balance]
    : balance \in balance_scores(frame, labels, transit)
  }

\* the columns "Calculate normalized scores" indexes df_complete by beyond
\* the required ones
step_table_columns == {"bedrooms", "bathrooms"}

\* "Calculate normalized scores": every series, the step tables, the balance.
\* df_complete['bedrooms'] and df_complete['bathrooms'] raise KeyError on a
\* file without the column, which the required-column check does not ask for.
NormalizeScores ==
    /\ pc = "normalize"
    /\ IF step_table_columns \subseteq columns
       THEN /\ scores' \in
                  compute_scores(df, df_complete, WEIGHTS, include_size, include_transit)
            /\ pc' = "score_columns"
            /\ error' = error
       ELSE /\ scores' = scores
            /\ pc' = "raised"
            /\ error' = "KeyError"
    /\ UNCHANGED <<include_size, include_transit, WEIGHTS, columns, loaded, df,
                   clean_log, df_complete, score_columns, pending, last_call, output,
                   helper_vars>>

\* the score columns main() adds to df
score_column_names(W, size, transit) ==
    {"edinburgh_distance_score", "edinburgh_drive_score", "glasgow_distance_score",
     "glasgow_drive_score", "bedroom_score", "bathroom_score", "balance_score",
     "combined_score"}
    \cup (IF W.PRICE_WEIGHT > 0 THEN {"price_score"} ELSE {})
    \cup (IF size THEN {"size_score"} ELSE {})
    \cup (IF transit THEN {"edinburgh_transit_score", "glasgow_transit_score"} ELSE {})

\* the series a score column is filled from
series_of(S, column) ==
    CASE column = "price_score" -> S.price
      [] column = "edinburgh_distance_score" -> S.edin_dist
      [] column = "edinburgh_drive_score" -> S.edin_drive
      [] column = "glasgow_distance_score" -> S.glas_dist
      [] column = "glasgow_drive_score" -> S.glas_drive
      [] column = "edinburgh_transit_score" -> S.edin_transit
      [] column = "glasgow_transit_score" -> S.glas_transit
      [] column = "size_score" -> S.size
      [] column = "bedroom_score" -> S.bedroom
      [] column = "bathroom_score" -> S.bathroom
      [] column = "balance_score" -> S.balance
      [] OTHER -> EmptySeries

\* the score columns filled from a series of normalize_to_0_100
NormalizedColumns ==
    {"price_score", "edinburgh_distance_score", "edinburgh_drive_score",
     "glasgow_distance_score", "glasgow_drive_score", "edinburgh_transit_score",
     "glasgow_transit_score", "size_score"}

\* the field of df_complete such a series is computed from
normalized_field(column) ==
    CASE column = "price_score" -> "price"
      [] column = "edinburgh_distance_score" -> "edinburgh_distance_km"
      [] column = "edinburgh_drive_score" -> "edinburgh_drive_time_minutes"
      [] column = "glasgow_distance_score" -> "glasgow_distance_km"
      [] column = "glasgow_drive_score" -> "glasgow_drive_time_minutes"
      [] column = "edinburgh_transit_score" -> "edinburgh_transit_time_minutes"
      [] column = "glasgow_transit_score" -> "glasgow_transit_time_minutes"
      [] OTHER -> "property_size_sqm"

\* and the higher_is_better it is computed with
normalized_higher(column) == column = "size_score"

RECURSIVE GCD(_, _)
GCD(a, b) == IF b = 0 THEN a ELSE GCD(b, a % b)

RECURSIVE IsPowerOfTwo(_)
IsPowerOfTwo(n) == n = 1 \/ (n > 1 /\ n % 2 = 0 /\ IsPowerOfTwo(n \div 2))

\* the part of the range an entry of normalize_to_0_100 scores: the entry
\* is 100 * part / (max - min)
normalized_part(values, higher_is_better, i) ==
    IF higher_is_better THEN values[i] - SeriesMin(values)
    ELSE SeriesMax(values) - values[i]

\* the entry lies halfway between two multiples of 0.01
is_tie(values, higher_is_better, i) ==
    LET range == SeriesMax(values) - SeriesMin(values)
    IN  /\ range # 0
        /\ 2 * ((100 * 100 * normalized_part(values, higher_is_better, i)) % range) = range

\* the floats hold the entry exactly: part / range is a dyadic fraction
is_exact(values, higher_is_better, i) ==
    LET range == SeriesMax(values) - SeriesMin(values)
        part == normalized_part(values, higher_is_better, i)
    IN  range = 0 \/ IsPowerOfTwo(range \div GCD(part, range))

\* normalize_to_0_100(values, higher_is_better).round(2) at i, in units of
\* 1/Scale.  Series.round(2) is rint(entry * 100) / 100: off a tie the
\* nearest multiple of 0.01, on a tie the floats hold exactly the even one,
\* on any other tie the side the float product falls on (up or not).
round_normalized(values, higher_is_better, i, up) ==
    LET range == SeriesMax(values) - SeriesMin(values)
        part == normalized_part(values, higher_is_better, i)
        q == (100 * 100 * part) \div range
        r == (100 * 100 * part) % range
        nearest == IF 2 * r < range THEN q
                   ELSE IF 2 * r > range THEN q + 1
                   ELSE IF is_exact(values, higher_is_better, i)
                   THEN (IF q % 2 = 0 THEN q ELSE q + 1)
                   ELSE IF up THEN q + 1 ELSE q
    IN  IF range = 0 THEN 50 * Scale ELSE nearest * (Scale \div 100)

\* series.round(2) at an entry of x units that is not one of
\* normalize_to_0_100: the nearest multiple of 0.01, on a tie the side the
\* float falls on (up or not)
round_series(x, up) ==
    LET step == Scale \div 100
        down == (x \div step) * step
        r == x % step
    IN  IF 2 * r < step THEN down
        ELSE IF 2 * r > step THEN down + step
        ELSE IF up THEN down + step ELSE down

\* the cells of the score columns whose rounding the floats decide: ties of
\* the normalized columns, and of the other series of S
float_ties(frame, labels, S, W, size, transit) ==
    {cell \in score_column_names(W, size, transit) \X labels :
        IF cell[1] \in NormalizedColumns
        THEN LET values == Column(frame, labels, normalized_field(cell[1]))
             IN  /\ is_tie(values, normalized_higher(cell[1]), cell[2])
                 /\ ~is_exact(values, normalized_higher(cell[1]), cell[2])
        ELSE /\ cell[1] # "combined_score"
             /\ 2 * (series_of(S, cell[1])[cell[2]] % (Scale \div 100)) = Scale \div 100}

\* df[column] = None, then df.loc[df_complete.index, column] = series.round(2);
\* up holds the cells of float_ties that are rounded up
fill_score_columns(frame, labels, S, W, size, transit, up) ==
    [c \in score_column_names(W, size, transit) |->
        [i \in DOMAIN frame |->
            IF c = "combined_score" \/ i \notin labels THEN NaN
            ELSE IF c \in NormalizedColumns
            THEN round_normalized(Column(frame, labels, normalized_field(c)),
                                  normalized_higher(c), i, <<c, i>> \in up)
            ELSE round_series(series_of(S, c)[i], <<c, i>> \in up)]]

RECURSIVE InOrder(_)
InOrder(labels) ==
    IF labels = {} THEN <<>>
    ELSE LET least == CHOOSE i \in labels : \A j \in labels : i <= j
         IN  <<least>> \o InOrder(labels \ {least})

\* "Initialize score columns" and "Add individual scores"
AddScoreColumns ==
    /\ pc = "score_columns"
    /\ \E up \in SUBSET float_ties(df, df_complete, scores, WEIGHTS, include_size,
                                   include_transit) :
          score_columns' = fill_score_columns(df, df_complete, scores, WEIGHTS,
                                              include_size, include_transit, up)
    /\ pending' = InOrder(df_complete)
    /\ pc' = "combine"
    /\ UNCHANGED <<error, include_size, include_transit, WEIGHTS, columns, loaded, df,
                   clean_log, df_complete, scores, last_call, output, helper_vars>>

\* one iteration of "for idx, row in df_complete.iterrows()"
CombineRecord ==
    /\ pc = "combine"
    /\ pending # <<>>
    /\ \E r \in calculate_combined_score(df[Head(pending)], Head(pending), scores, WEIGHTS,
                                          include_size, include_transit,
                                          WEIGHTS.PRICE_WEIGHT > 0) :
       LET idx == Head(pending)
       IN  /\ last_call' = [name |-> idx, score |-> r.score, raised |-> r.raised,
                            steps |-> r.steps, penalties |-> r.penalties]
           /\ IF r.raised
              THEN /\ pc' = "raised"
                   /\ error' = "ZeroDivisionError"
                   /\ UNCHANGED <<score_columns, pending>>
              ELSE /\ score_columns' = [score_columns EXCEPT !.combined_score[idx] = r.score]
                   /\ pending' = Tail(pending)
                   /\ UNCHANGED <<pc, error>>
    /\ UNCHANGED <<include_size, include_transit, WEIGHTS, columns, loaded, df,
                   clean_log, df_complete, scores, output, helper_vars>>

\* the table to_csv writes: the rows of df with their score columns
output_table == [rows |-> df, score_columns |-> score_columns]

\* Mutant: the table is written inside the loop, after each iteration.
SaveCSVInsideLoop ==
    /\ pc = "combine"
    /\ output' = Append(output, output_table)
    /\ pc' = IF pending = <<>> THEN "summary" ELSE pc
    /\ UNCHANGED <<error, include_size, include_transit, WEIGHTS, columns, loaded, df,
                   clean_log, df_complete, scores, score_columns, pending, last_call,
                   helper_vars>>

\* after the loop: to_numeric, the column reorder, df.to_csv(output_file)
SaveCSV ==
    /\ pc = "combine"
    /\ pending = <<>>
    /\ \/ /\ output' = Append(output, output_table)
          /\ pc' = "summary"
          /\ error' = error
       \/ /\ output' = output
          /\ pc' = "exit1"
          /\ error' = "save"
    /\ UNCHANGED <<include_size, include_transit, WEIGHTS, columns, loaded, df,
                   clean_log, df_complete, scores, score_columns, pending, last_call,
                   helper_vars>>

\* the columns the top-10 listing selects
summary_columns ==
    {"address", "price", "bedrooms", "property_size_sqm",
     "edinburgh_distance_km", "edinburgh_drive_time_minutes",
     "edinburgh_transit_time_minutes",
     "glasgow_distance_km", "glasgow_drive_time_minutes",
     "glasgow_transit_time_minutes"}

scored_properties == {i \in DOMAIN df : NotNa(score_columns.combined_score[i])}

TOP_N == 10

\* rows.nlargest(n, column): the n rows with the largest values, the
\* earlier row first among equal values
RECURSIVE nlargest(_, _, _)
nlargest(n, rows, column) ==
    IF n = 0 \/ rows = {} THEN {}
    ELSE LET first == CHOOSE i \in rows :
                          \A j \in rows :
                              \/ column[i] > column[j]
                              \/ column[i] = column[j] /\ i <= j
         IN  {first} \cup nlargest(n - 1, rows \ {first}, column)

top_10 == nlargest(TOP_N, scored_properties, score_columns.combined_score)

\* summary statistics and the top-10 listing (row['address'][:70] of a row
\* without address raises), then return 0
Summary ==
    /\ pc = "summary"
    /\ IF ~(summary_columns \subseteq columns)
       THEN pc' = "raised" /\ error' = "KeyError"
       ELSE IF \E i \in top_10 : df[i].address = ""
       THEN pc' = "raised" /\ error' = "TypeError"
       ELSE pc' = "exit0" /\ error' = error
    /\ UNCHANGED <<include_size, include_transit, WEIGHTS, columns, loaded, df,
                   clean_log, df_complete, scores, score_columns, pending, last_call,
                   output, helper_vars>>

Next ==
    \/ ParseArguments
    \/ SetWeights
    \/ ValidateWeights
    \/ LoadCSV
    \/ CleanData
    \/ CheckColumns
    \/ FilterComplete
    \/ NormalizeScores
    \/ AddScoreColumns
    \/ CombineRecord
    \/ SaveCSV
    \/ Summary

Spec == Init /\ [][Next]_vars

(***************************************************************************)
(* The helpers applied on their own: one call, arguments drawn from small  *)
(* grids.                                                                  *)
(***************************************************************************)
\* travel times tried: 0, 25, ..., 25 * MaxTimeSteps minutes, and 20 minutes
\* with times that are not whole minutes (33.25, 33.33 and 45.1 minutes)
MaxTimeSteps == 16
FractionalTimes == {2000, 3325, 3333, 4510}
TimeGrid == {Minutes(25 * t) : t \in 0..MaxTimeSteps} \cup FractionalTimes

\* raw values and lengths of the series tried
MaxValue == 4
MaxSeries == 3
SeriesGrid == UNION {[1..n -> 0..MaxValue] : n \in 1..MaxSeries}

\* room counts tried: a missing count and 0..MaxCount
MaxCount == 8
CountGrid == {NaN} \cup 0..MaxCount

\* drive times and distances the penalty block is tried on, around its
\* thresholds (15 minutes; 30 and 60 km; the caps at 110 and 5 km), as
\* clean_data leaves them: clipped to the caps, never both times under 5
\* minutes, never both distances over 100 km
DriveTimes == {0, 4, 5, 10, 14, 15, 16, 30, 60, 180}
Distances == {0, 1, 5, 15, 29, 30, 31, 45, 59, 60, 61, 90, 100, 110, 111, 200}
PenaltyTimes ==
    {t \in DriveTimes \X DriveTimes :
        ~(t[1] < UNREALISTIC_MINUTES /\ t[2] < UNREALISTIC_MINUTES)}
PenaltyDistances ==
    {d \in Distances \X Distances : ~(d[1] > TOO_FAR_KM /\ d[2] > TOO_FAR_KM)}

\* the row of a call of the penalty block
PenaltyRow(call) ==
    [Base EXCEPT !.edinburgh_drive_time_minutes = call[2],
                 !.glasgow_drive_time_minutes = call[3],
                 !.edinburgh_distance_km = call[4],
                 !.glasgow_distance_km = call[5]]

\* rows clean_data is tried on: each rule alone, two rules at once, the
\* limits and the caps themselves, missing values
CleanPool ==
    {Base,
     [Base EXCEPT !.address = "3 King St, manchester, England"],
     [Base EXCEPT !.address = "5 LONDON Road, Glasgow"],
     [Base EXCEPT !.address = ""],
     [Base EXCEPT !.address = "3 King St, manchester, England",
                  !.edinburgh_distance_km = 250, !.glasgow_distance_km = 150,
                  !.edinburgh_drive_time_minutes = 200, !.glasgow_drive_time_minutes = 190],
     [Base EXCEPT !.address = "3 King St, manchester, England",
                  !.edinburgh_drive_time_minutes = 2, !.glasgow_drive_time_minutes = 3],
     [Base EXCEPT !.edinburgh_distance_km = 250, !.glasgow_distance_km = 150,
                  !.edinburgh_drive_time_minutes = 200, !.glasgow_drive_time_minutes = 190],
     [Base EXCEPT !.edinburgh_distance_km = 150, !.glasgow_distance_km = 101,
                  !.edinburgh_drive_time_minutes = 2, !.glasgow_drive_time_minutes = 3],
     [Base EXCEPT !.edinburgh_distance_km = 1, !.glasgow_distance_km = 1,
                  !.edinburgh_drive_time_minutes = 2, !.glasgow_drive_time_minutes = 3],
     [Base EXCEPT !.edinburgh_distance_km = 250, !.glasgow_distance_km = 80,
                  !.edinburgh_drive_time_minutes = 200, !.glasgow_drive_time_minutes = 90],
     [Base EXCEPT !.edinburgh_distance_km = 101, !.glasgow_distance_km = 100],
     [Base EXCEPT !.edinburgh_distance_km = 101, !.glasgow_distance_km = 101],
     [Base EXCEPT !.edinburgh_drive_time_minutes = 4, !.glasgow_drive_time_minutes = 5],
     [Base EXCEPT !.edinburgh_drive_time_minutes = 0, !.glasgow_drive_time_minutes = 0],
     [Base EXCEPT !.edinburgh_distance_km = NaN, !.glasgow_distance_km = 150],
     [Base EXCEPT !.edinburgh_drive_time_minutes = NaN, !.glasgow_drive_time_minutes = 3],
     [Base EXCEPT !.edinburgh_distance_km = 200, !.glasgow_distance_km = 50,
                  !.edinburgh_drive_time_minutes = 180, !.glasgow_drive_time_minutes = 50]}

CleanTables == UNION {[1..n -> CleanPool] : n \in 1..MaxRecords}

HelperCalls ==
    {<<"calculate_balance_score", a, b>> : a \in TimeGrid, b \in TimeGrid}
    \cup {<<"inline_balance_score", a, b>> : a \in TimeGrid, b \in TimeGrid}
    \cup {<<"normalize_to_0_100", v, h>> : v \in SeriesGrid, h \in BOOLEAN}
    \cup {<<"calculate_bedroom_score", n>> : n \in CountGrid}
    \cup {<<"calculate_bathroom_score", n>> : n \in CountGrid}
    \cup {<<"penalties", t[1], t[2], d[1], d[2]>> : t \in PenaltyTimes, d \in PenaltyDistances}
    \cup {<<"clean_data", t>> : t \in CleanTables}

HelperInit ==
    /\ pc = "call"
    /\ args \in HelperCalls
    /\ result = NaN
    /\ error = ""
    /\ include_size = TRUE
    /\ include_transit = TRUE
    /\ WEIGHTS = [n \in WeightNames |-> 0]
    /\ columns = {}
    /\ loaded = EmptySeries
    /\ df = EmptySeries
    /\ clean_log = <<>>
    /\ df_complete = {}
    /\ scores = NoScores
    /\ score_columns = EmptySeries
    /\ pending = <<>>
    /\ last_call = NoCall
    /\ output = <<>>
    /\ NoRequests

main_frame == <<include_size, include_transit, WEIGHTS, columns, loaded, df,
                clean_log, df_complete, scores, score_columns, pending, last_call,
                output>>

main_vars == <<error, main_frame, routes_vars, scrape_vars>>

ApplyBalanceScore ==
    /\ pc = "call"
    /\ args[1] = "calculate_balance_score"
    /\ result' \in calculate_balance_score(args[2], args[3])
    /\ pc' = "returned"
    /\ UNCHANGED <<args, main_vars>>

\* the balance score of a row in a mode without transit times, from its two
\* drive times:
\*   used     : the value calculate_combined_score puts in the weighted sum
\*   written  : the balance_score cell, the value main() keeps in
\*              balance_scores rounded by Series.round(2)
\*   returned : what calculate_balance_score returns for the two times
ApplyInlineBalance ==
    /\ pc = "call"
    /\ args[1] = "inline_balance_score"
    /\ \E written \in Nearest2(inline_balance_score(args[2], args[3])),
          returned \in calculate_balance_score(args[2], args[3]) :
            result' = [used |-> inline_balance_score(args[2], args[3]),
                       written |-> written,
                       returned |-> returned]
    /\ pc' = "returned"
    /\ UNCHANGED <<args, main_vars>>

ApplyNormalize ==
    /\ pc = "call"
    /\ args[1] = "normalize_to_0_100"
    /\ result' = normalize_to_0_100(args[2], args[3])
    /\ pc' = "returned"
    /\ UNCHANGED <<args, main_vars>>

ApplyBedroomScore ==
    /\ pc = "call"
    /\ args[1] = "calculate_bedroom_score"
    /\ result' = calculate_bedroom_score(args[2])
    /\ pc' = "returned"
    /\ UNCHANGED <<args, main_vars>>

ApplyBathroomScore ==
    /\ pc = "call"
    /\ args[1] = "calculate_bathroom_score"
    /\ result' = calculate_bathroom_score(args[2])
    /\ pc' = "returned"
    /\ UNCHANGED <<args, main_vars>>

\* "Calculate penalties for unbalanced properties" of calculate_combined_score
ApplyPenalties ==
    /\ pc = "call"
    /\ args[1] = "penalties"
    /\ LET row == PenaltyRow(args)
       IN  IF time_division_by_zero(row) \/ distance_division_by_zero(row)
           THEN /\ result' = NaN
                /\ error' = "ZeroDivisionError"
                /\ pc' = "raised"
           ELSE /\ result' = penalties(row)
                /\ error' = error
                /\ pc' = "returned"
    /\ UNCHANGED <<args, include_size, include_transit, WEIGHTS, columns, loaded, df,
                   clean_log, df_complete, scores, score_columns, pending, last_call,
                   output, routes_vars, scrape_vars>>

\* clean_data(df) on a frame that has every column
ApplyCleanData ==
    /\ pc = "call"
    /\ args[1] = "clean_data"
    /\ LET r == clean_data(args[2], AllColumns)
       IN  /\ result' = r
           /\ error' = r.raised
           /\ pc' = IF r.raised # "" THEN "raised" ELSE "returned"
    /\ UNCHANGED <<args, include_size, include_transit, WEIGHTS, columns, loaded, df,
                   clean_log, df_complete, scores, score_columns, pending, last_call,
                   output, routes_vars, scrape_vars>>

HelperNext ==
    \/ ApplyCleanData
    \/ ApplyPenalties
    \/ ApplyBalanceScore
    \/ ApplyInlineBalance
    \/ ApplyNormalize
    \/ ApplyBedroomScore
    \/ ApplyBathroomScore

HelperSpec == HelperInit /\ [][HelperNext]_vars

(***************************************************************************)
(* add_scotland_city_distances.py: get_distances_from_routes_api, called   *)
(* by main() with the search address of every row (None for a row that has *)
(* neither postcode nor address).  Distances are kept in hundredths of a   *)
(* kilometre and durations in tenths of a minute.                          *)
(***************************************************************************)
None == NaN

NoneNone == <<None, None>>

\* the search address main() appends for a row without postcode and address
NoAddress == "None"

batch_size == 2

MaxAddresses == 3

Addresses == {NoAddress, "EH1 1YZ, Scotland, UK", "G1 1XQ, Scotland, UK"}

AddressLists == UNION {[1..n -> Addresses] : n \in 0..MaxAddresses}

\* the route the service knows from an address to the destination
distanceMeters(address) ==
    IF address = "EH1 1YZ, Scotland, UK" THEN 12340 ELSE 74560

duration(address) ==
    IF address = "EH1 1YZ, Scotland, UK" THEN 900 ELSE 3725

\* the elements the service can answer with for one origin of the request:
\* a route, a route of no length, no route, a route without a duration
Elements(origin_idx, address) ==
    {[originIndex |-> origin_idx, status |-> "OK",
      distanceMeters |-> distanceMeters(address), duration |-> duration(address)],
     [originIndex |-> origin_idx, status |-> "OK",
      distanceMeters |-> 0, duration |-> 0],
     [originIndex |-> origin_idx, status |-> "ROUTE_NOT_FOUND",
      distanceMeters |-> None, duration |-> None],
     [originIndex |-> origin_idx, status |-> "",
      distanceMeters |-> distanceMeters(address), duration |-> None]}

Orders(n) == {o \in [1..n -> 0..(n - 1)] : \A a, b \in 1..n : o[a] = o[b] => a = b}

\* one answer for each origin, listed in the order o
Answers(origins, o) ==
    LET n == Len(origins)
        any == UNION {Elements(j, origins[j + 1]) : j \in 0..(n - 1)}
    IN  {c \in [1..n -> any] :
            \A k \in 1..n : c[k] \in Elements(o[k], origins[o[k] + 1])}

\* response.json(): one element per origin, in any order when every element
\* names its origin, in request order when originIndex is left out
Responses(origins) ==
    LET n == Len(origins)
        in_request_order(o) == \A k \in 1..n : o[k] = k - 1
    IN  UNION {Answers(origins, o) : o \in Orders(n)}
        \cup {[k \in 1..n |-> [c[k] EXCEPT !.originIndex = None]] :
                 c \in UNION {Answers(origins, o) :
                                o \in {p \in Orders(n) : in_request_order(p)}}}

\* batch = origin_addresses[i:i + batch_size]
batch ==
    SubSeq(origin_addresses, batch_start + 1,
           Min2(batch_start + batch_size, Len(origin_addresses)))

\* the addresses that pass "if address:"
IsOrigin(address) == address # NoAddress

origins == SelectSeq(batch, IsOrigin)

\* the loop over data: one element stored, then the rest
RECURSIVE store_results(_, _, _)
store_results(batch_results, data, idx) ==
    IF idx >= Len(data) THEN batch_results
    ELSE LET element == data[idx + 1]
             origin_idx == IF element.originIndex = None THEN idx
                           ELSE element.originIndex
             distance_meters == element.distanceMeters
             duration_seconds == IF element.duration = None THEN 0 ELSE element.duration
             stored ==
                 IF (element.status = "OK" \/ distance_meters # None)
                    /\ distance_meters # None /\ distance_meters # 0
                 THEN [batch_results EXCEPT ![origin_idx + 1] =
                          <<RoundDiv(distance_meters, 1000, 100), RoundDiv(duration_seconds, 60, 10)>>]
                 ELSE batch_results
         IN  store_results(stored, data, idx + 1)

failed_batch == [k \in 1..Len(batch) |-> NoneNone]

RoutesInit ==
    /\ pc = "call"
    /\ origin_addresses \in AddressLists
    /\ batch_start = 0
    /\ all_results = <<>>
    /\ args = <<>>
    /\ result = NaN
    /\ error = ""
    /\ include_size = TRUE
    /\ include_transit = TRUE
    /\ WEIGHTS = [n \in WeightNames |-> 0]
    /\ columns = {}
    /\ loaded = EmptySeries
    /\ df = EmptySeries
    /\ clean_log = <<>>
    /\ df_complete = {}
    /\ scores = NoScores
    /\ score_columns = EmptySeries
    /\ pending = <<>>
    /\ last_call = NoCall
    /\ output = <<>>
    /\ max_pages = NaN
    /\ total_pages = 1
    /\ page_num = 0
    /\ requested = <<>>
    /\ all_properties = <<>>
    /\ combined_df = <<>>

routes_frame == <<args, error, main_frame, scrape_vars>>

\* "if not origin_addresses: return []"
ReturnNoResults ==
    /\ pc = "call"
    /\ origin_addresses = <<>>
    /\ result' = <<>>
    /\ pc' = "returned"
    /\ UNCHANGED <<routes_vars, routes_frame>>

\* all_results = [] and the first evaluation of the loop header
EnterBatches ==
    /\ pc = "call"
    /\ origin_addresses # <<>>
    /\ all_results' = <<>>
    /\ batch_start' = 0
    /\ pc' = "batch"
    /\ UNCHANGED <<origin_addresses, result, routes_frame>>

NextBatch(batch_results) ==
    /\ pc = "batch"
    /\ batch_start < Len(origin_addresses)
    /\ all_results' = all_results \o batch_results
    /\ batch_start' = batch_start + batch_size
    /\ UNCHANGED <<pc, origin_addresses, result, routes_frame>>

\* "if not origins": no request is sent
BatchWithoutOrigins ==
    /\ origins = <<>>
    /\ NextBatch(failed_batch)

\* response.status_code != 200
BatchNot200 ==
    /\ origins # <<>>
    /\ NextBatch(failed_batch)

\* requests.post or response.json() raises
BatchException ==
    /\ origins # <<>>
    /\ NextBatch(failed_batch)

\* a 200 response: its elements are stored by originIndex
BatchSuccess ==
    /\ origins # <<>>
    /\ \E data \in Responses(origins) :
          NextBatch(store_results(failed_batch, data, 0))

\* "return all_results", and main() making columns of the results
ReturnAllResults ==
    /\ pc = "batch"
    /\ batch_start >= Len(origin_addresses)
    /\ result' = [distance_km |-> [k \in 1..Len(all_results) |-> all_results[k][1]],
                  drive_time_minutes |-> [k \in 1..Len(all_results) |-> all_results[k][2]]]
    /\ pc' = "returned"
    /\ UNCHANGED <<routes_vars, routes_frame>>

RoutesNext ==
    \/ ReturnNoResults
    \/ EnterBatches
    \/ BatchWithoutOrigins
    \/ BatchNot200
    \/ BatchException
    \/ BatchSuccess
    \/ ReturnAllResults

RoutesSpec == RoutesInit /\ [][RoutesNext]_vars

(***************************************************************************)
(* multi_page_scraper.py: scrape_all_pages (scrape_all_pages_with_details  *)
(* of enhanced_scraper.py pages through the results in the same way).  A   *)
(* page is the list of the ids of its properties.                          *)
(***************************************************************************)
RESULTS_PER_PAGE == 24

MaxTotalPages == 3

MaxPagesGiven == 3

MaxPerPage == 2

MaxId == 3

\* scrape_rightmove_page returning a frame: the ids on the page
Pages == UNION {[1..n -> 1..MaxId] : n \in 0..MaxPerPage}

NonEmptyPages == Pages \ {<<>>}

\* pagination.get('total', 1)
get_total(pagination) == IF pagination = None THEN 1 ELSE pagination

Paginations == {None} \cup 1..MaxTotalPages

\* min(max_pages, total_pages) if max_pages else total_pages
pages_to_scrape ==
    IF max_pages # None /\ max_pages # 0 THEN Min2(max_pages, total_pages)
    ELSE total_pages

RECURSIVE concat(_)
concat(frames) ==
    IF frames = <<>> THEN <<>> ELSE Head(frames) \o concat(Tail(frames))

\* drop_duplicates(subset=['id'], keep='first')
RECURSIVE drop_duplicates(_)
drop_duplicates(ids) ==
    IF ids = <<>> THEN <<>>
    ELSE LET kept == drop_duplicates(SubSeq(ids, 1, Len(ids) - 1))
             last == ids[Len(ids)]
         IN  IF \E k \in 1..Len(kept) : kept[k] = last THEN kept
             ELSE Append(kept, last)

ScrapeInit ==
    /\ pc = "call"
    /\ max_pages \in {None} \cup 0..MaxPagesGiven
    /\ total_pages = 1
    /\ page_num = 0
    /\ requested = <<>>
    /\ all_properties = <<>>
    /\ combined_df = <<>>
    /\ args = <<>>
    /\ result = NaN
    /\ error = ""
    /\ include_size = TRUE
    /\ include_transit = TRUE
    /\ WEIGHTS = [n \in WeightNames |-> 0]
    /\ columns = {}
    /\ loaded = EmptySeries
    /\ df = EmptySeries
    /\ clean_log = <<>>
    /\ df_complete = {}
    /\ scores = NoScores
    /\ score_columns = EmptySeries
    /\ pending = <<>>
    /\ last_call = NoCall
    /\ output = <<>>
    /\ origin_addresses = <<>>
    /\ batch_start = 0
    /\ all_results = <<>>

scrape_frame == <<args, result, main_frame, routes_vars>>

\* the first request raises: "Error scraping first page", an empty frame
FirstPageFails ==
    /\ pc = "call"
    /\ requested' = <<0>>
    /\ error' = "Error scraping first page"
    /\ combined_df' = <<>>
    /\ pc' = "returned"
    /\ UNCHANGED <<max_pages, total_pages, page_num, all_properties, scrape_frame>>

\* the first page has no properties: "No properties found!", an empty frame
FirstPageEmpty ==
    /\ pc = "call"
    /\ requested' = <<0>>
    /\ error' = "No properties found!"
    /\ combined_df' = <<>>
    /\ pc' = "returned"
    /\ UNCHANGED <<max_pages, total_pages, page_num, all_properties, scrape_frame>>

\* the first page is kept and its pagination read
FirstPage ==
    /\ pc = "call"
    /\ \E page \in NonEmptyPages, pagination \in Paginations :
          /\ all_properties' = <<page>>
          /\ total_pages' = get_total(pagination)
    /\ requested' = <<0>>
    /\ pc' = "pages"
    /\ UNCHANGED <<max_pages, page_num, combined_df, error, scrape_frame>>

\* "Combine all pages": concat, then drop_duplicates
combine(frames) == drop_duplicates(concat(frames))

\* for page_num in range(1, pages_to_scrape): a page with properties
LaterPage ==
    /\ pc = "pages"
    /\ page_num + 1 < pages_to_scrape
    /\ page_num' = page_num + 1
    /\ requested' = Append(requested, page_num' * RESULTS_PER_PAGE)
    /\ \E page \in NonEmptyPages : all_properties' = Append(all_properties, page)
    /\ UNCHANGED <<pc, max_pages, total_pages, combined_df, error, scrape_frame>>

\* a later page without properties: break, then the pages kept are combined
LaterPageEmpty ==
    /\ pc = "pages"
    /\ page_num + 1 < pages_to_scrape
    /\ page_num' = page_num + 1
    /\ requested' = Append(requested, page_num' * RESULTS_PER_PAGE)
    /\ error' = "No properties found, stopping"
    /\ combined_df' = combine(all_properties)
    /\ pc' = "returned"
    /\ UNCHANGED <<max_pages, total_pages, all_properties, scrape_frame>>

\* a later request raises: break, then the pages kept are combined
LaterPageFails ==
    /\ pc = "pages"
    /\ page_num + 1 < pages_to_scrape
    /\ page_num' = page_num + 1
    /\ requested' = Append(requested, page_num' * RESULTS_PER_PAGE)
    /\ error' = "Stopping at page"
    /\ combined_df' = combine(all_properties)
    /\ pc' = "returned"
    /\ UNCHANGED <<max_pages, total_pages, all_properties, scrape_frame>>

\* the range is exhausted: the pages kept are combined
AllPagesDone ==
    /\ pc = "pages"
    /\ page_num + 1 >= pages_to_scrape
    /\ combined_df' = combine(all_properties)
    /\ pc' = "returned"
    /\ UNCHANGED <<max_pages, total_pages, page_num, requested, all_properties, error,
                   scrape_frame>>

ScrapeNext ==
    \/ FirstPageFails
    \/ FirstPageEmpty
    \/ FirstPage
    \/ LaterPage
    \/ LaterPageEmpty
    \/ LaterPageFails
    \/ AllPagesDone

ScrapeSpec == ScrapeInit /\ [][ScrapeNext]_vars

(***************************************************************************)
(* Properties.  Eligibility as the specification defines it: every field   *)
(* the mode requires, bedrooms and bathrooms included.                     *)
(***************************************************************************)
ModeFields(size, transit) ==
    {"price", "edinburgh_distance_km", "edinburgh_drive_time_minutes",
     "glasgow_distance_km", "glasgow_drive_time_minutes", "bedrooms", "bathrooms"}
    \cup (IF size THEN {"property_size_sqm"} ELSE {})
    \cup (IF transit
          THEN {"edinburgh_transit_time_minutes", "glasgow_transit_time_minutes"}
          ELSE {})

MissingFields(row, size, transit) == {f \in ModeFields(size, transit) : IsNa(row[f])}

EligibleRow(row) == MissingFields(row, include_size, include_transit) = {}

Eligible == {i \in DOMAIN df : EligibleRow(df[i])}

NormalizedFactors ==
    {"price", "edin_dist", "edin_drive", "glas_dist", "glas_drive",
     "edin_transit", "glas_transit", "size"}

Ended == pc \in {"exit0", "exit1", "raised"}

\* C1: in the Scotland run, every min-max normalized factor takes its minimum
\* and maximum over the eligible rows only (bedrooms and bathrooms included
\* in eligibility), so each eligible row's normalized score is what it would
\* be with the ineligible rows absent.
C1_MinMaxOverEligibleOnly ==
    scores # NoScores =>
        \A i \in Eligible : \A f \in NormalizedFactors :
            i \in DOMAIN scores[f] =>
                \A S \in compute_scores(df, Eligible, WEIGHTS, include_size, include_transit) :
                    scores[f][i] = S[f][i]

\* C2: in every table written, a row missing a field the mode requires has
\* the missing marker in every score column and in the combined score, and
\* every eligible row has a combined score.
C2_IneligibleRowsUnscored ==
    \A k \in 1..Len(output) :
        \A i \in DOMAIN output[k].rows :
            IF MissingFields(output[k].rows[i], include_size, include_transit) # {}
            THEN \A c \in DOMAIN output[k].score_columns :
                    IsNa(output[k].score_columns[c][i])
            ELSE NotNa(output[k].score_columns.combined_score[i])

\* C3: calculate_combined_score returns None for a row in which a field the
\* mode requires is null, and returns it from the required-fields check,
\* before the scores, the penalties or the weighted sum are evaluated; the
\* row's combined_score cell stays empty.
C3_MissingFieldNoScore ==
    /\ last_call.steps # <<>> /\ ~EligibleRow(df[last_call.name]) =>
          /\ IsNa(last_call.score)
          /\ ~last_call.raised
          /\ last_call.steps = <<"required">>
    /\ \A i \in DOMAIN df :
          (~EligibleRow(df[i]) /\ "combined_score" \in DOMAIN score_columns) =>
              IsNa(score_columns.combined_score[i])

\* a call on a row that lacks only its bedroom count returned None
C3_Witness ==
    /\ last_call.steps = <<"required">>
    /\ MissingFields(df[last_call.name], include_size, include_transit) = {"bedrooms"}
    /\ IsNa(score_columns.combined_score[last_call.name])
    /\ pending = <<>>

OnlySizeMissing(row) == MissingFields(row, TRUE, TRUE) = {"property_size_sqm"}

\* C4: a row whose only missing field is property_size_sqm is, under full
\* mode, outside the rows the size minimum and maximum are taken over and
\* without a combined score; under no-size mode with transit times a run
\* that gets as far as scoring ends with a numeric combined score for it in
\* the written table.
C4_SizeMissingScenario ==
    \A i \in DOMAIN df :
        OnlySizeMissing(df[i]) =>
            /\ (include_size /\ include_transit /\ scores # NoScores) =>
                  /\ i \notin DOMAIN scores.size
                  /\ ("combined_score" \in DOMAIN score_columns =>
                         IsNa(score_columns.combined_score[i]))
            /\ (~include_size /\ include_transit /\ Ended /\ scores # NoScores
                /\ error # "save") =>
                  /\ output # <<>>
                  /\ NotNa(output[1].score_columns.combined_score[i])

\* the weights, in hundredths, sum to a value outside [0.999, 1.001]
SumOutsideTolerance(W) == 10 * total_weight(W) < 999 \/ 10 * total_weight(W) > 1001

\* C5: with a weight table whose sum is outside the tolerance the run gets no
\* further than the assertion: nothing is loaded, cleaned, filtered, scored
\* or written.
C5_InvalidWeightsRejectedFirst ==
    (pc \notin {"parse_arguments", "set_weights"} /\ SumOutsideTolerance(WEIGHTS)) =>
        /\ pc \in {"validate_weights", "raised"}
        /\ loaded = EmptySeries /\ df = EmptySeries /\ columns = {}
        /\ clean_log = <<>> /\ df_complete = {}
        /\ scores = NoScores /\ score_columns = EmptySeries
        /\ last_call = NoCall /\ output = <<>>

\* an edited table was rejected by the assertion
C5_Witness ==
    /\ pc = "raised" /\ error = "AssertionError"
    /\ total_weight(WEIGHTS) = 105
    /\ loaded = EmptySeries

\* C6: when a column the mode requires is absent from the input, no row is
\* clipped or dropped before the run ends: the working frame is still the
\* table as loaded, and every removal count logged is 0.
C6_NoCleaningBeforeColumnCheck ==
    (loaded # EmptySeries /\ missing_columns # {}) =>
        /\ df = loaded
        /\ \A k \in 1..Len(clean_log) : clean_log[k] = 0

\* C7: the table is written at most once, only when the loop has visited every
\* row of df_complete (every eligible row has its combined score in what is
\* written), and never in a run that failed to load, lacks a required
\* column, found no complete row or failed the weight assertion.
C7_OutputOnceAfterScoring ==
    /\ Len(output) <= 1
    /\ output # <<>> =>
          /\ pending = <<>>
          /\ pc \in {"summary", "exit0", "raised"}
          /\ output[1].rows = df
          /\ \A i \in df_complete :
                EligibleRow(df[i]) => NotNa(output[1].score_columns.combined_score[i])
    /\ error \in {"load", "columns", "no_complete", "AssertionError"} => output = <<>>
    /\ (loaded = EmptySeries \/ missing_columns # {} \/ df_complete = {}
        \/ SumOutsideTolerance(WEIGHTS)) => output = <<>>

\* a run returned 0 after writing one table with two scored rows
C7_Witness ==
    /\ pc = "exit0"
    /\ Len(output) = 1
    /\ Cardinality({i \in DOMAIN df : NotNa(output[1].score_columns.combined_score[i])}) = 2

\* C8: every combined score, in each mode, is between 0 and 100, and it is
\* exactly 0 when the penalties reach the weighted sum.
C8_CombinedScoreInRange ==
    /\ NotNa(last_call.score) =>
          /\ 0 <= last_call.score /\ last_call.score <= 100 * Scale
          /\ LET i == last_call.name
                 base == weighted_sum(i, scores, WEIGHTS, df[i], include_size,
                                      include_transit, WEIGHTS.PRICE_WEIGHT > 0)
             IN  total_penalty(df[i]) >= base => last_call.score = 0
    /\ "combined_score" \in DOMAIN score_columns =>
          \A i \in DOMAIN df :
              \/ IsNa(score_columns.combined_score[i])
              \/ /\ 0 <= score_columns.combined_score[i]
                 /\ score_columns.combined_score[i] <= 100 * Scale

\* a row whose penalties exceed its weighted sum was scored 0.0
C8_Witness ==
    /\ last_call.steps # <<>> /\ ~last_call.raised
    /\ last_call.score = 0
    /\ total_penalty(df[last_call.name]) >
          weighted_sum(last_call.name, scores, WEIGHTS, df[last_call.name],
                       include_size, include_transit, WEIGHTS.PRICE_WEIGHT > 0)
    /\ weighted_sum(last_call.name, scores, WEIGHTS, df[last_call.name],
                    include_size, include_transit, WEIGHTS.PRICE_WEIGHT > 0) > 0

BalanceReturned == pc = "returned" /\ args[1] = "calculate_balance_score"

\* C9 as stated: calculate_balance_score(0, 0) is 100.0 and
\* calculate_balance_score(400, 400) is 0.0.
C9_BalanceBoundaries ==
    BalanceReturned =>
        /\ (args[2] = 0 /\ args[3] = 0) => result = 100 * Scale
        /\ (args[2] = Minutes(400) /\ args[3] = Minutes(400)) => result = 0

\* C9, amended: calculate_balance_score(0, 0) is 100.0 and
\* calculate_balance_score(400, 400) is 40.0 (the max-time part is floored at
\* 0, the balance part of two equal times is 100, weighted 0.4).
C9_BalanceBoundariesAmended ==
    BalanceReturned =>
        /\ (args[2] = 0 /\ args[3] = 0) => result = 100 * Scale
        /\ (args[2] = Minutes(400) /\ args[3] = Minutes(400)) => result = 40 * Scale

C9_Witness ==
    BalanceReturned /\ args[2] = Minutes(400) /\ args[3] = Minutes(400) /\ result = 40 * Scale

NormalizeReturned == pc = "returned" /\ args[1] = "normalize_to_0_100"

\* C10: every score normalize_to_0_100 returns is between 0 and 100, for
\* higher_is_better true and false.
C10_NormalizedInRange ==
    NormalizeReturned =>
        /\ DOMAIN result = DOMAIN args[2]
        /\ \A i \in DOMAIN result : 0 <= result[i] /\ result[i] <= 100 * Scale

\* a lower-is-better series with scores at both ends and strictly inside
C10_Witness ==
    /\ NormalizeReturned
    /\ args[3] = FALSE
    /\ \E i, j, k \in DOMAIN result :
          /\ result[i] = 0 /\ result[j] = 100 * Scale
          /\ 0 < result[k] /\ result[k] < 100 * Scale

\* the column a normalized factor is computed from
FactorColumn(f) ==
    CASE f = "price" -> "price"
      [] f = "edin_dist" -> "edinburgh_distance_km"
      [] f = "edin_drive" -> "edinburgh_drive_time_minutes"
      [] f = "glas_dist" -> "glasgow_distance_km"
      [] f = "glas_drive" -> "glasgow_drive_time_minutes"
      [] f = "edin_transit" -> "edinburgh_transit_time_minutes"
      [] f = "glas_transit" -> "glasgow_transit_time_minutes"
      [] f = "size" -> "property_size_sqm"

\* the series holds one value throughout
Uniform(values) == \A i, j \in DOMAIN values : values[i] = values[j]

\* the values of a normalized factor over the eligible rows
EligibleValues(f) == Column(df, Eligible, FactorColumn(f))

\* the factor is normalized in the mode of the run, and the scores are there
Normalized(f) == scores # NoScores /\ DOMAIN scores[f] # {} /\ Eligible # {}

\* C11: in a run, for every normalized factor (lower or higher is better)
\* whose value is the same in every eligible row, every eligible row's score
\* for the factor is exactly 50.0.
C11_UniformFactorScoresFifty ==
    \A f \in NormalizedFactors :
        (Normalized(f) /\ Uniform(EligibleValues(f))) =>
            \A i \in Eligible : scores[f][i] = 50 * Scale

\* C12: within one call of normalize_to_0_100, a larger raw value never gets
\* a smaller score than a smaller raw value when higher_is_better, and never
\* a larger score when lower is better.
C12_NormalizeMonotone ==
    NormalizeReturned =>
        \A i, j \in DOMAIN args[2] :
            args[2][i] > args[2][j] =>
                IF args[3] THEN result[i] >= result[j] ELSE result[i] <= result[j]

\* three distinct values, lower is better, scored in strictly inverted order
C12_Witness ==
    /\ NormalizeReturned /\ args[3] = FALSE
    /\ \E i, j, k \in DOMAIN args[2] :
          /\ args[2][i] < args[2][j] /\ args[2][j] < args[2][k]
          /\ result[i] > result[j] /\ result[j] > result[k]


\* C13: for every normalized factor of the run whose values over the eligible
\* rows are not all equal: an eligible row holding their minimum scores
\* exactly 100.0 and one holding their maximum exactly 0.0 when lower is
\* better (every factor but size), and the other way round for size; two
\* eligible rows priced 1000 and 2000 are written with price_score 100.0 and
\* 0.0.
C13_EndpointsScored ==
    /\ \A f \in NormalizedFactors :
          LET s == scores[f]
              raw == EligibleValues(f)
              best == IF f = "size" THEN SeriesMax(raw) ELSE SeriesMin(raw)
              worst == IF f = "size" THEN SeriesMin(raw) ELSE SeriesMax(raw)
          IN  (Normalized(f) /\ ~Uniform(raw)) =>
                  \A i \in Eligible :
                      /\ raw[i] = best => s[i] = 100 * Scale
                      /\ raw[i] = worst => s[i] = 0
    /\ "price_score" \in DOMAIN score_columns =>
          \A i, j \in DOMAIN df :
              (/\ Eligible = {i, j}
               /\ df[i].price = 1000 /\ df[j].price = 2000) =>
                  /\ score_columns.price_score[i] = 100 * Scale
                  /\ score_columns.price_score[j] = 0


\* the step tables as the specification lists them
BedroomTable == (1 :> 10) @@ (2 :> 30) @@ (3 :> 50) @@ (4 :> 70) @@ (5 :> 85) @@ (6 :> 100)
BathroomTable == (0 :> 0) @@ (1 :> 25) @@ (2 :> 60) @@ (3 :> 85) @@ (4 :> 100)

Lookup(table, n) == IF n \in DOMAIN table THEN table[n] ELSE 0

\* C14: calculate_bedroom_score and calculate_bathroom_score return, for every
\* integer count, the entry of the step table, and exactly 0 for a count
\* that is not in the table (0 or 7 bedrooms, 5 bathrooms).
C14_StepTables ==
    /\ (pc = "returned" /\ args[1] = "calculate_bedroom_score") =>
          result = Lookup(BedroomTable, args[2])
    /\ (pc = "returned" /\ args[1] = "calculate_bathroom_score") =>
          result = Lookup(BathroomTable, args[2])

\* seven bedrooms scored 0
C14_Witness ==
    pc = "returned" /\ args = <<"calculate_bedroom_score", 7>> /\ result = 0

\* C15: in a mode without transit times, for every pair of drive times the
\* balance score the weighted sum uses and the balance_score cell written
\* both equal what calculate_balance_score returns for the pair.
C15_DriveTimeBalance ==
    (pc = "returned" /\ args[1] = "inline_balance_score") =>
        /\ result.used = result.returned
        /\ result.written = result.returned


\* The four penalties as the specification gives them, each as a relation
\* between the amount p (in units of 1/Scale) and two raw values of the row.
\* A quotient is pinned down to the unit: hi * p <= numerator < hi * (p + 1).
IsCityCenterPenalty(p, tA, tB) ==
    LET lo == Min2(tA, tB)
        hi == Max2(tA, tB)
    IN  IF tA < 15 \/ tB < 15
        THEN hi * p <= (hi - lo) * 30 * Scale /\ (hi - lo) * 30 * Scale < hi * (p + 1)
        ELSE p = 0

IsFarPenalty(p, dA, dB) ==
    LET larger == Max2(dA, dB)
    IN  IF larger <= 60 THEN p = 0
        ELSE 2 * p = Min2(2 * 25 * Scale, (larger - 60) * Scale)

IsClosePenalty(p, dA, dB) ==
    LET smaller == Min2(dA, dB)
    IN  IF smaller >= 30 THEN p = 0
        ELSE 10 * p = Min2(10 * 20 * Scale, 8 * (30 - smaller) * Scale)

IsImbalancePenalty(p, dA, dB) ==
    LET lo == Min2(dA, dB)
        hi == Max2(dA, dB)
    IN  IF 2 * lo < hi
        THEN /\ hi * p <= (hi - 2 * lo) * 25 * Scale
             /\ (hi - 2 * lo) * 25 * Scale < hi * (p + 1)
        ELSE p = 0

\* rounded is a multiple of 0.01 no further from the value than half a step
\* and the precision the value is known to
IsRounded2(rounded, value) ==
    /\ rounded % (Scale \div 100) = 0
    /\ 2 * Abs(rounded - value) <= Scale \div 100 + 2 * Slack

\* C16: every score calculate_combined_score returns is the weighted sum
\* minus the sum of the four penalties, floored at 0 and rounded to two
\* decimals; each penalty is at least 0 and is the specification's function of
\* the row's two drive times or two distances only; the score is the row's
\* combined_score cell.
C16_ScoreIsSumMinusPenalties ==
    NotNa(last_call.score) =>
        LET i == last_call.name
            row == df[i]
            p == last_call.penalties
            base == weighted_sum(i, scores, WEIGHTS, row, include_size, include_transit,
                                 WEIGHTS.PRICE_WEIGHT > 0)
        IN  /\ p.city_center >= 0 /\ p.far >= 0 /\ p.close >= 0 /\ p.imbalance >= 0
            /\ IsRounded2(last_call.score,
                           Max2(0, base - (p.city_center + p.far + p.close + p.imbalance)))
            /\ IsCityCenterPenalty(p.city_center, row.edinburgh_drive_time_minutes,
                                   row.glasgow_drive_time_minutes)
            /\ IsFarPenalty(p.far, row.edinburgh_distance_km, row.glasgow_distance_km)
            /\ IsClosePenalty(p.close, row.edinburgh_distance_km, row.glasgow_distance_km)
            /\ IsImbalancePenalty(p.imbalance, row.edinburgh_distance_km,
                                  row.glasgow_distance_km)
            /\ score_columns.combined_score[i] = last_call.score

\* a row 25 km and 70 km from the cities was scored above 0 after three
\* penalties (5.0, 4.0 and 7.14) were subtracted
C16_Witness ==
    /\ NotNa(last_call.score) /\ last_call.score > 0
    /\ last_call.penalties.city_center = 0
    /\ last_call.penalties.far = 5 * Scale
    /\ last_call.penalties.close = 4 * Scale
    /\ last_call.penalties.imbalance > 7 * Scale
    /\ last_call.score < weighted_sum(last_call.name, scores, WEIGHTS, df[last_call.name],
                                      include_size, include_transit,
                                      WEIGHTS.PRICE_WEIGHT > 0)

PenaltiesReturned == pc = "returned" /\ args[1] = "penalties"

\* C17: the city-center penalty is (1 - min/max) x 30 of the two drive times
\* when at least one of them is under 15 minutes, and 0 when both are 15 or
\* more; it is between 0 and 30, 0 for equal drive times, and above 0 when it
\* applies to unequal ones.
C17_CityCenterPenalty ==
    PenaltiesReturned =>
        LET tA == args[2]
            tB == args[3]
            p == result.city_center
        IN  /\ IsCityCenterPenalty(p, tA, tB)
            /\ 0 <= p /\ p <= 30 * Scale
            /\ tA = tB => p = 0
            /\ (tA >= 15 /\ tB >= 15) => p = 0
            /\ ((tA < 15 \/ tB < 15) /\ tA # tB) => p > 0

\* drive times of 10 and 60 minutes: (1 - 10/60) x 30 = 25.0
C17_Witness ==
    /\ PenaltiesReturned
    /\ args[2] = 10 /\ args[3] = 60
    /\ result.city_center = 25 * Scale

\* C18: the far-from-both penalty is 0 while the larger distance is at most
\* 60 km, else min(25, 0.5 x (larger distance - 60)); it never exceeds 25.
C18_FarPenalty ==
    PenaltiesReturned =>
        /\ IsFarPenalty(result.far, args[4], args[5])
        /\ 0 <= result.far /\ result.far <= 25 * Scale
        /\ Max2(args[4], args[5]) <= 60 => result.far = 0

\* 200 km from one city: 0.5 x 140 = 70 is capped at 25.0
C18_Witness ==
    /\ PenaltiesReturned
    /\ args[4] = 200 /\ args[5] = 30
    /\ result.far = 25 * Scale

\* C19: the too-close-to-one penalty is 0 when the smaller distance is 30 km
\* or more, else min(20, 0.8 x (30 - smaller distance)); it never exceeds 20.
C19_ClosePenalty ==
    PenaltiesReturned =>
        /\ IsClosePenalty(result.close, args[4], args[5])
        /\ 0 <= result.close /\ result.close <= 20 * Scale
        /\ Min2(args[4], args[5]) >= 30 => result.close = 0

\* 1 km from one city: 0.8 x 29 = 23.2 is capped at 20.0
C19_Witness ==
    /\ PenaltiesReturned
    /\ args[4] = 1 /\ args[5] = 45
    /\ result.close = 20 * Scale

\* C20: the extreme-imbalance penalty is (0.5 - ratio) x 50, above 0 and at
\* most 25, exactly when the ratio smaller / larger distance is below 0.5; at
\* a ratio of 0.5 or above it is 0.
C20_ImbalancePenalty ==
    PenaltiesReturned =>
        LET lo == Min2(args[4], args[5])
            hi == Max2(args[4], args[5])
            p == result.imbalance
        IN  /\ IsImbalancePenalty(p, args[4], args[5])
            /\ 2 * lo < hi => (0 < p /\ p <= 25 * Scale)
            /\ 2 * lo >= hi => p = 0

\* 15 km and 60 km: ratio 0.25, penalty 12.5
C20_Witness ==
    /\ PenaltiesReturned
    /\ args[4] = 15 /\ args[5] = 60
    /\ 2 * result.imbalance = 25 * Scale


CleanReturned == pc = "returned" /\ args[1] = "clean_data"

\* The rules of the cleaning pass as the specification gives them, on a row
\* as it was passed in.  A missing value is neither over nor under a limit.
MentionsOtherRegion(row) == row.address # "" /\ KeywordsIn(row.address) # {}

Clipped(x, cap) == IF NotNa(x) /\ x > cap THEN cap ELSE x

BothDistancesOver(row, km) ==
    /\ NotNa(row.edinburgh_distance_km) /\ Clipped(row.edinburgh_distance_km, 200) > km
    /\ NotNa(row.glasgow_distance_km) /\ Clipped(row.glasgow_distance_km, 200) > km

BothDriveTimesUnder(row, minutes) ==
    /\ NotNa(row.edinburgh_drive_time_minutes)
    /\ Clipped(row.edinburgh_drive_time_minutes, 180) < minutes
    /\ NotNa(row.glasgow_drive_time_minutes)
    /\ Clipped(row.glasgow_drive_time_minutes, 180) < minutes

\* the rows each stage removes when the stages run in the order region
\* filter, clipping, both-distances drop, both-drive-times drop
RegionStage(in) == {i \in DOMAIN in : MentionsOtherRegion(in[i])}
DistanceStage(in) ==
    {i \in DOMAIN in \ RegionStage(in) : BothDistancesOver(in[i], 100)}
DriveTimeStage(in) ==
    {i \in (DOMAIN in \ RegionStage(in)) \ DistanceStage(in) : BothDriveTimesUnder(in[i], 5)}

\* C21: the three counts clean_data reports are, in order, the numbers of
\* rows removed by the region filter on the rows passed in, by the
\* both-distances drop on what the filter left, and by the both-drive-times
\* drop on what that left; they add up to rows in minus rows out, and the
\* rows out are exactly the rows no stage removed.
C21_StagesInOrderWithCounts ==
    CleanReturned =>
        LET in == args[2]
        IN  /\ result.removed =
                  <<Cardinality(RegionStage(in)), Cardinality(DistanceStage(in)),
                    Cardinality(DriveTimeStage(in))>>
            /\ result.removed[1] + result.removed[2] + result.removed[3] =
                  Cardinality(DOMAIN in) - Cardinality(DOMAIN result.df)
            /\ DOMAIN result.df =
                  ((DOMAIN in \ RegionStage(in)) \ DistanceStage(in)) \ DriveTimeStage(in)

\* an English listing beyond 100 km from both cities and a Scottish one under
\* five minutes from both: one removal by the region filter, none by the
\* distance rule, one by the drive-time rule
C21_Witness ==
    /\ CleanReturned
    /\ Len(args[2]) = 2
    /\ MentionsOtherRegion(args[2][1]) /\ BothDistancesOver(args[2][1], 100)
    /\ ~MentionsOtherRegion(args[2][2]) /\ BothDriveTimesUnder(args[2][2], 5)
    /\ ~BothDistancesOver(args[2][2], 100)
    /\ result.removed = <<1, 0, 1>>
    /\ DOMAIN result.df = {}

ClippedFields ==
    {<<"edinburgh_drive_time_minutes", 180>>, <<"glasgow_drive_time_minutes", 180>>,
     <<"edinburgh_distance_km", 200>>, <<"glasgow_distance_km", 200>>}

\* C22: in every row clean_data returns, both drive times are at most 180 and
\* both distances at most 200; a value above its cap has become the cap, any
\* other value, and every other field, is as passed in; and a row that no
\* drop rule applies to is returned, however large its values.
C22_ClippingKeepsRecords ==
    CleanReturned =>
        LET in == args[2]
        IN  /\ \A i \in DOMAIN result.df :
                  /\ \A c \in ClippedFields :
                        /\ result.df[i][c[1]] <= c[2]
                        /\ in[i][c[1]] > c[2] => result.df[i][c[1]] = c[2]
                        /\ in[i][c[1]] <= c[2] => result.df[i][c[1]] = in[i][c[1]]
                  /\ \A f \in AllColumns \ {c[1] : c \in ClippedFields} :
                        result.df[i][f] = in[i][f]
            /\ \A i \in DOMAIN in :
                  (/\ ~MentionsOtherRegion(in[i])
                   /\ ~BothDistancesOver(in[i], 100)
                   /\ ~BothDriveTimesUnder(in[i], 5)) => i \in DOMAIN result.df

\* a row 250 km and 200 minutes from Edinburgh was returned with 200 km and
\* 180 minutes, its Glasgow values of 80 km and 90 minutes unchanged
C22_Witness ==
    /\ CleanReturned
    /\ 1 \in DOMAIN result.df
    /\ args[2][1].edinburgh_distance_km = 250
    /\ args[2][1].edinburgh_drive_time_minutes = 200
    /\ result.df[1].edinburgh_distance_km = 200
    /\ result.df[1].edinburgh_drive_time_minutes = 180
    /\ result.df[1].glasgow_distance_km = 80
    /\ result.df[1].glasgow_drive_time_minutes = 90

\* C23: of the rows the region filter leaves, clean_data removes by the
\* distance rule exactly those with both distances above 100 km: no row
\* returned has both above 100, and a row with one distance at most 100 or
\* missing is returned unless the drive-time rule removes it.
C23_BothDistancesDrop ==
    CleanReturned =>
        LET in == args[2]
        IN  /\ \A i \in DOMAIN result.df :
                  ~(/\ NotNa(result.df[i].edinburgh_distance_km)
                    /\ result.df[i].edinburgh_distance_km > 100
                    /\ NotNa(result.df[i].glasgow_distance_km)
                    /\ result.df[i].glasgow_distance_km > 100)
            /\ \A i \in DOMAIN in :
                  (~MentionsOtherRegion(in[i]) /\ ~BothDriveTimesUnder(in[i], 5)) =>
                      (i \in DOMAIN result.df <=> ~BothDistancesOver(in[i], 100))
            /\ result.removed[2] =
                  Cardinality({i \in DOMAIN in : /\ ~MentionsOtherRegion(in[i])
                                                 /\ BothDistancesOver(in[i], 100)})

\* a row 101 and 100 km away was kept, one 101 and 101 km away was dropped
C23_Witness ==
    /\ CleanReturned
    /\ Len(args[2]) = 2
    /\ args[2][1].edinburgh_distance_km = 101 /\ args[2][1].glasgow_distance_km = 100
    /\ args[2][2].edinburgh_distance_km = 101 /\ args[2][2].glasgow_distance_km = 101
    /\ DOMAIN result.df = {1}
    /\ result.removed = <<0, 1, 0>>

\* C24: of the rows the earlier stages leave, clean_data removes by the
\* drive-time rule exactly those with both drive times under 5 minutes: no
\* row returned has both under 5, and a row with one drive time of 5 or more
\* or missing is returned.
C24_BothDriveTimesDrop ==
    CleanReturned =>
        LET in == args[2]
        IN  /\ \A i \in DOMAIN result.df :
                  ~(/\ NotNa(result.df[i].edinburgh_drive_time_minutes)
                    /\ result.df[i].edinburgh_drive_time_minutes < 5
                    /\ NotNa(result.df[i].glasgow_drive_time_minutes)
                    /\ result.df[i].glasgow_drive_time_minutes < 5)
            /\ \A i \in DOMAIN in :
                  (~MentionsOtherRegion(in[i]) /\ ~BothDistancesOver(in[i], 100)) =>
                      (i \in DOMAIN result.df <=> ~BothDriveTimesUnder(in[i], 5))

\* a row with drive times 4 and 5 was kept, one with a missing drive time and
\* 3 was kept too
C24_Witness ==
    /\ CleanReturned
    /\ Len(args[2]) = 2
    /\ args[2][1].edinburgh_drive_time_minutes = 4
    /\ args[2][1].glasgow_drive_time_minutes = 5
    /\ IsNa(args[2][2].edinburgh_drive_time_minutes)
    /\ args[2][2].glasgow_drive_time_minutes = 3
    /\ DOMAIN result.df = {1, 2}
    /\ result.removed = <<0, 0, 0>>


\* the fields of the factors a mode does not use
UnusedFields(size, transit) ==
    (IF size THEN {} ELSE {"property_size_sqm"})
    \cup (IF transit THEN {}
          ELSE {"edinburgh_transit_time_minutes", "glasgow_transit_time_minutes"})

\* the frame with every unused field of every row replaced by v
WithUnused(frame, size, transit, v) ==
    [i \in DOMAIN frame |->
        [f \in DOMAIN frame[i] |->
            IF f \in UnusedFields(size, transit) THEN v ELSE frame[i][f]]]

\* the combined_score column a run over frame can end with: for every row
\* the scores its call can return
CombinedScores(frame, size, transit, W) ==
    LET labels == complete_rows(frame, size, transit)
    IN  [i \in DOMAIN frame |->
            IF i \in labels
            THEN UNION {{r.score : r \in calculate_combined_score(frame[i], i, S, W, size,
                                                                 transit, W.PRICE_WEIGHT > 0)}
                        : S \in compute_scores(frame, labels, W, size, transit)}
            ELSE {NaN}]

\* values put in the place of an unused field: missing, and two numbers
UnusedValues == {NaN, 7, 300}

\* C25: once the weights are set, the size weight is 0 when sizes are not
\* used and both transit weights are 0 when transit times are not used; and
\* the combined scores a run ends with are those of the same run over the
\* table in which every unused field holds any other value, missing included.
C25_UnusedFactorsInert ==
    /\ pc \notin {"parse_arguments", "set_weights"} =>
          /\ ~include_size => WEIGHTS.SIZE_WEIGHT = 0
          /\ ~include_transit =>
                /\ WEIGHTS.EDINBURGH_TRANSIT_TIME_WEIGHT = 0
                /\ WEIGHTS.GLASGOW_TRANSIT_TIME_WEIGHT = 0
    /\ (pc \in {"summary", "exit0"} \/ (pc = "raised" /\ output # <<>>)) =>
          \A v \in UnusedValues :
              LET other == CombinedScores(WithUnused(df, include_size, include_transit, v),
                                          include_size, include_transit, WEIGHTS)
              IN  /\ other = CombinedScores(df, include_size, include_transit, WEIGHTS)
                  /\ \A i \in DOMAIN df : score_columns.combined_score[i] \in other[i]

\* a run without sizes and transit times scored a row that has no size
C25_Witness ==
    /\ ~include_size /\ ~include_transit
    /\ pc \in {"summary", "exit0", "raised"} /\ output # <<>>
    /\ \E i \in DOMAIN df :
          /\ IsNa(df[i].property_size_sqm)
          /\ NotNa(score_columns.combined_score[i])
          /\ score_columns.combined_score[i] > 0


\* C26: for the mode of the run, whichever flags selected it, get_weights
\* returns eleven weights, each between 0 and 1, whose sum is within 0.001 of
\* 1.0; a run that uses the table as returned gets past the assertion.
C26_ShippedWeightsValid ==
    pc # "parse_arguments" =>
        LET shipped == get_weights(include_size, include_transit)
        IN  /\ DOMAIN shipped = WeightNames /\ Cardinality(WeightNames) = 11
            /\ \A n \in WeightNames : 0 <= shipped[n] /\ shipped[n] <= 100
            /\ 999 <= 10 * SumOver(shipped, WeightNames)
            /\ 10 * SumOver(shipped, WeightNames) <= 1001
            /\ (WEIGHTS = shipped /\ pc \notin {"set_weights", "validate_weights"}) =>
                  error # "AssertionError"

\* the minimal table passed the assertion
C26_Witness ==
    /\ pc = "load"
    /\ ~include_size /\ ~include_transit
    /\ WEIGHTS = get_weights(FALSE, FALSE)
    /\ WEIGHTS.BALANCE_WEIGHT = 0 /\ WEIGHTS.BEDROOM_WEIGHT = 15


\* a call of calculate_combined_score got past the required-fields check
ReachedPenalties == Len(last_call.steps) > 1

\* C27: for every row calculate_combined_score computes penalties for, the
\* larger of the two drive times is above 0, the smaller is between 0 and the
\* larger, and the division of the city-center penalty does not raise.
C27_TimeDivisorPositive ==
    /\ ReachedPenalties =>
          LET row == df[last_call.name]
              lo == Min2(row.edinburgh_drive_time_minutes, row.glasgow_drive_time_minutes)
              hi == Max2(row.edinburgh_drive_time_minutes, row.glasgow_drive_time_minutes)
          IN  hi > 0 /\ 0 <= lo /\ lo <= hi /\ ~time_division_by_zero(row)
    /\ pc = "combine" =>
          \A i \in df_complete :
              Max2(df[i].edinburgh_drive_time_minutes, df[i].glasgow_drive_time_minutes) > 0

\* a row with no drive time to either city was dropped by clean_data, and the
\* row 10 and 60 minutes from the cities had its time ratio computed
C27_Witness ==
    /\ ReachedPenalties /\ NotNa(last_call.score)
    /\ \E i \in DOMAIN loaded :
          /\ loaded[i].edinburgh_drive_time_minutes = 0
          /\ loaded[i].glasgow_drive_time_minutes = 0
          /\ i \notin DOMAIN df
    /\ df[last_call.name].edinburgh_drive_time_minutes = 10
    /\ df[last_call.name].glasgow_drive_time_minutes = 60
    /\ last_call.penalties.city_center = 25 * Scale

\* C28: for every row calculate_combined_score computes penalties for, the
\* larger of the two distances is above 0, the call does not raise, and it
\* returns a number.
C28_DistanceDivisorPositive ==
    ReachedPenalties =>
        LET row == df[last_call.name]
        IN  /\ Max2(row.edinburgh_distance_km, row.glasgow_distance_km) > 0
            /\ ~last_call.raised
            /\ NotNa(last_call.score)

\* what the service can report for an address, as the function stores it
ResultsFor(address) ==
    IF address = NoAddress THEN {NoneNone}
    ELSE {NoneNone,
          <<RoundDiv(distanceMeters(address), 1000, 100), RoundDiv(duration(address), 60, 10)>>,
          <<RoundDiv(distanceMeters(address), 1000, 100), 0>>}

\* C29: get_distances_from_routes_api returns one entry per input address in
\* input order on every path: the entry at position i is a result of
\* origin_addresses[i] or (None, None), and a null address has (None, None)
\* at its own position.
C29_OneResultPerAddressInPlace ==
    (pc = "returned" /\ origin_addresses # <<>>) =>
        /\ Len(all_results) = Len(origin_addresses)
        /\ \A k \in 1..Len(all_results) :
              all_results[k] \in ResultsFor(origin_addresses[k])

\* the ids of the pages kept
IdsKept ==
    UNION {{all_properties[p][k] : k \in 1..Len(all_properties[p])} :
             p \in 1..Len(all_properties)}

FirstPageLost == error \in {"Error scraping first page", "No properties found!"}

\* C30: scrape_all_pages fetches no more than max_pages pages when max_pages
\* is given and never more pages than the site has, requests the pages in
\* increasing order at index 24 x page number, stops at the first later page
\* that is empty or fails and keeps the properties of the pages before it,
\* returns an empty table when the first page fails or is empty, and returns
\* no id twice.
C30_BoundedOrderedScrape ==
    /\ max_pages # None => Len(requested) <= max_pages
    /\ Len(requested) <= Max2(total_pages, 1)
    /\ \A k \in 1..Len(requested) : requested[k] = RESULTS_PER_PAGE * (k - 1)
    /\ pc = "returned" =>
          /\ FirstPageLost => combined_df = <<>>
          /\ ~FirstPageLost =>
                /\ {combined_df[k] : k \in 1..Len(combined_df)} = IdsKept
                /\ Len(all_properties) =
                      IF error = "" THEN Len(requested) ELSE Len(requested) - 1
          /\ \A a, b \in 1..Len(combined_df) : combined_df[a] = combined_df[b] => a = b

====
